---- MODULE Spec2Model ----
(***************************************************************************)
(* A model of staticsocket: the pattern matcher (internal/parser/patterns),*)
(* the value resolver (internal/resolver) and the analyzer (pkg/analyzer)  *)
(* that walks the call expressions of Go files and aggregates the socket   *)
(* records it finds.                                                       *)
(*                                                                         *)
(* Go strings are TLA+ strings; a nil pointer is the empty tuple and a     *)
(* pointer to v is the one-element tuple <<v>>.                            *)
(***************************************************************************)
EXTENDS Integers, Sequences, FiniteSets, TLC

VARIABLES
    world,     \* the file system the caller runs against, and how many Analyze calls it makes
    results,   \* Analyzer.results: the one AnalysisResults the Analyzer owns
    returned,  \* what each Analyze call returned, in call order
    asked,     \* the targetPath of each Analyze call, in call order
    writer,    \* the caller's io.Writer and what its Export calls returned
    gor,       \* the goroutines of a caller that runs Analyze calls concurrently
    pc,        \* position of the analyzer's control
    walk,      \* analyzeDirectory: paths filepath.Walk has still to hand to the callback
    file,      \* analyzeFile: the file being analysed
    todo,      \* ast.Walk: the call expressions still to be visited in the file
    call,      \* astVisitor.Visit: the call expression being visited
    socket     \* astVisitor.Visit: the local socket (nil or a pointer to a SocketInfo)

vars == <<world, results, returned, asked, writer, gor, pc, walk, file, todo, call, socket>>

----------------------------------------------------------------------------
(* Go's strings and strconv packages, as far as the program uses them.     *)

Nil == <<>>

Ptr(v) == <<v>>

Deref(p) == p[1]

HasPrefix(s, prefix) ==
    /\ Len(s) >= Len(prefix)
    /\ SubSeq(s, 1, Len(prefix)) = prefix

HasSuffix(s, suffix) ==
    /\ Len(s) >= Len(suffix)
    /\ SubSeq(s, Len(s) - Len(suffix) + 1, Len(s)) = suffix

Contains(s, substr) ==
    \E i \in 1..(Len(s) - Len(substr) + 1) : SubSeq(s, i, i + Len(substr) - 1) = substr

\* strings.Index for a one-character separator; 0 when sep does not occur
Index(s, sep) ==
    IF \E i \in 1..Len(s) : SubSeq(s, i, i) = sep
    THEN CHOOSE i \in 1..Len(s) :
            /\ SubSeq(s, i, i) = sep
            /\ \A j \in 1..(i - 1) : SubSeq(s, j, j) # sep
    ELSE 0

LastIndex(s, sep) ==
    IF \E i \in 1..Len(s) : SubSeq(s, i, i) = sep
    THEN CHOOSE i \in 1..Len(s) :
            /\ SubSeq(s, i, i) = sep
            /\ \A j \in (i + 1)..Len(s) : SubSeq(s, j, j) # sep
    ELSE 0

RECURSIVE Split(_, _)
\* strings.Split(s, sep), sep one character: all the pieces, "" splits into <<"">>
Split(s, sep) ==
    LET i == Index(s, sep)
    IN  IF i = 0
        THEN <<s>>
        ELSE <<SubSeq(s, 1, i - 1)>> \o Split(SubSeq(s, i + 1, Len(s)), sep)

RECURSIVE Join(_, _)
Join(parts, sep) ==
    IF Len(parts) = 0 THEN ""
    ELSE IF Len(parts) = 1 THEN parts[1]
    ELSE parts[1] \o sep \o Join(Tail(parts), sep)

IsDigit(c) == \E d \in 0..9 : SubSeq("0123456789", d + 1, d + 1) = c

DigitVal(c) == CHOOSE d \in 0..9 : SubSeq("0123456789", d + 1, d + 1) = c

RECURSIVE DecimalValue(_)
DecimalValue(s) ==
    IF Len(s) = 0 THEN 0
    ELSE 10 * DecimalValue(SubSeq(s, 1, Len(s) - 1)) + DigitVal(SubSeq(s, Len(s), Len(s)))

\* strconv.Atoi: an optional sign, then one or more decimal digits
Atoi(s) ==
    LET signed == Len(s) > 0 /\ SubSeq(s, 1, 1) \in {"+", "-"}
        digits == IF signed THEN SubSeq(s, 2, Len(s)) ELSE s
        neg    == signed /\ SubSeq(s, 1, 1) = "-"
    IN  IF Len(digits) = 0 \/ \E i \in 1..Len(digits) : ~IsDigit(SubSeq(digits, i, i))
        THEN [err |-> TRUE, v |-> 0]
        ELSE [err |-> FALSE,
              v   |-> IF neg THEN 0 - DecimalValue(digits) ELSE DecimalValue(digits)]

\* strconv.Unquote of an interpreted string token without escapes: "..."
Unquote(text) ==
    LET n == Len(text)
        q == IF n > 0 THEN SubSeq(text, 1, 1) ELSE ""
    IN  IF n >= 2 /\ q = "\"" /\ SubSeq(text, n, n) = q
           /\ ~Contains(SubSeq(text, 2, n - 1), q)
        THEN [err |-> FALSE, v |-> SubSeq(text, 2, n - 1)]
        ELSE [err |-> TRUE, v |-> ""]

----------------------------------------------------------------------------
(* pkg/types                                                               *)

TrafficTypeIngress == "ingress"

TrafficTypeEgress == "egress"

ProtocolTCP == "tcp"

ProtocolUDP == "udp"

ProtocolHTTP == "http"

ProtocolHTTPS == "https"

ProtocolUnix == "unix"

\* the zero SocketInfo with the fields a composite literal of the matcher sets
SocketInfo(type, protocol, rawValue, patternMatch, functionName) ==
    [ ListenPort      |-> Nil,
      DestinationHost |-> Nil,
      DestinationPort |-> Nil,
      ProcessName     |-> "",
      SourceFile      |-> "",
      FunctionName    |-> functionName,
      ListenInterface |-> "",
      RawValue        |-> rawValue,
      PatternMatch    |-> patternMatch,
      Type            |-> type,
      Protocol        |-> protocol,
      SourceLine      |-> 0,
      IsResolved      |-> FALSE ]

----------------------------------------------------------------------------
(* go/ast expressions: records tagged by t.                                *)

BasicLit(kind, value) == [t |-> "BasicLit", kind |-> kind, value |-> value]

StringLit(s) == BasicLit("STRING", "\"" \o s \o "\"")

Ident(name) == [t |-> "Ident", name |-> name]

SelectorExpr(x, sel) == [t |-> "SelectorExpr", x |-> x, sel |-> sel]

BinaryExpr(x, op, y) == [t |-> "BinaryExpr", x |-> x, op |-> op, y |-> y]

CallExpr(fun, args, line) == [t |-> "CallExpr", fun |-> fun, args |-> args, line |-> line]

\* any other expression (composite literal, unary &x, function literal, ...)
OtherExpr == [t |-> "CompositeLit"]

----------------------------------------------------------------------------
(* internal/parser/patterns                                                *)

dialAddressArg == 2

hostPortPartsCount == 2

IngressPattern(protocol, addressArg, portOnly) ==
    [Protocol |-> protocol, AddressArg |-> addressArg, PortOnly |-> portOnly]

EgressPattern(protocol, addressArg, urlArg) ==
    [Protocol |-> protocol, AddressArg |-> addressArg, URLArg |-> urlArg]

ingressPatterns ==
    [ name \in {"net.Listen", "net.ListenTCP", "net.ListenUDP", "net.ListenUnix",
                "http.ListenAndServe", "http.ListenAndServeTLS"} |->
        CASE name = "net.Listen"             -> IngressPattern(ProtocolTCP, 1, FALSE)
          [] name = "net.ListenTCP"          -> IngressPattern(ProtocolTCP, 1, FALSE)
          [] name = "net.ListenUDP"          -> IngressPattern(ProtocolUDP, 1, FALSE)
          [] name = "net.ListenUnix"         -> IngressPattern(ProtocolUnix, 1, FALSE)
          [] name = "http.ListenAndServe"    -> IngressPattern(ProtocolHTTP, 0, TRUE)
          [] name = "http.ListenAndServeTLS" -> IngressPattern(ProtocolHTTPS, 0, TRUE) ]

egressPatterns ==
    [ name \in {"net.Dial", "net.DialTCP", "net.DialUDP", "net.DialTimeout",
                "http.Get", "http.Post", "http.PostForm"} |->
        CASE name = "net.Dial"        -> EgressPattern(ProtocolTCP, 1, 0)
          [] name = "net.DialTCP"     -> EgressPattern(ProtocolTCP, dialAddressArg, 0)
          [] name = "net.DialUDP"     -> EgressPattern(ProtocolUDP, dialAddressArg, 0)
          [] name = "net.DialTimeout" -> EgressPattern(ProtocolTCP, 1, 0)
          [] name = "http.Get"        -> EgressPattern(ProtocolHTTP, 0, 0)
          [] name = "http.Post"       -> EgressPattern(ProtocolHTTP, 0, 0)
          [] name = "http.PostForm"   -> EgressPattern(ProtocolHTTP, 0, 0) ]

extractFunctionName(callExpr) ==
    CASE callExpr.fun.t = "SelectorExpr" ->
            IF callExpr.fun.x.t = "Ident"
            THEN callExpr.fun.x.name \o "." \o callExpr.fun.sel
            ELSE ""
      [] callExpr.fun.t = "Ident" -> callExpr.fun.name
      [] OTHER -> ""

extractStringLiteral(expr) ==
    IF expr.t = "BasicLit" /\ expr.kind = "STRING" /\ ~Unquote(expr.value).err
    THEN Unquote(expr.value).v
    ELSE ""

extractContainingFunction(callExpr) == "unknown"

\* variant of parseIngressAddress that marks the record resolved only when host:port parsed
parseIngressAddressStrict(sock, address, portOnly) ==
    IF portOnly /\ HasPrefix(address, ":")
    THEN LET port == Atoi(SubSeq(address, 2, Len(address)))
         IN  IF ~port.err
             THEN [sock EXCEPT !.IsResolved = TRUE, !.ListenPort = Ptr(port.v),
                               !.ListenInterface = "0.0.0.0"]
             ELSE sock
    ELSE LET parts == Split(address, ":")
         IN  IF Len(parts) = hostPortPartsCount /\ ~Atoi(parts[2]).err
             THEN [sock EXCEPT !.IsResolved = TRUE,
                               !.ListenInterface = IF parts[1] = "" THEN "0.0.0.0" ELSE parts[1],
                               !.ListenPort = Ptr(Atoi(parts[2]).v)]
             ELSE sock

\* variant of parseIngressAddress that keeps an empty host instead of the wildcard interface
parseIngressAddressNoWildcard(sock, address, portOnly) ==
    LET s1 == [sock EXCEPT !.IsResolved = TRUE]
    IN  IF portOnly /\ HasPrefix(address, ":")
        THEN LET port == Atoi(SubSeq(address, 2, Len(address)))
             IN  IF ~port.err
                 THEN [s1 EXCEPT !.ListenPort = Ptr(port.v), !.ListenInterface = "0.0.0.0"]
                 ELSE s1
        ELSE LET parts == Split(address, ":")
             IN  IF Len(parts) = hostPortPartsCount
                 THEN LET s2   == [s1 EXCEPT !.ListenInterface = parts[1]]
                          port == Atoi(parts[2])
                      IN  IF ~port.err THEN [s2 EXCEPT !.ListenPort = Ptr(port.v)] ELSE s2
                 ELSE s1

parseIngressAddress(sock, address, portOnly) ==
    LET s1 == [sock EXCEPT !.IsResolved = TRUE]
    IN  IF portOnly /\ HasPrefix(address, ":")
        THEN LET port == Atoi(SubSeq(address, 2, Len(address)))
             IN  IF ~port.err
                 THEN [s1 EXCEPT !.ListenPort = Ptr(port.v), !.ListenInterface = "0.0.0.0"]
                 ELSE s1
        ELSE LET parts == Split(address, ":")
             IN  IF Len(parts) = hostPortPartsCount
                 THEN LET host == IF parts[1] = "" THEN "0.0.0.0" ELSE parts[1]
                          s2   == [s1 EXCEPT !.ListenInterface = host]
                          port == Atoi(parts[2])
                      IN  IF ~port.err THEN [s2 EXCEPT !.ListenPort = Ptr(port.v)] ELSE s2
                 ELSE s1

\* variant of parseEgressAddress that sets the host and never the port
parseEgressAddressHostOnly(sock, address) ==
    LET s1    == [sock EXCEPT !.IsResolved = TRUE]
        parts == Split(address, ":")
    IN  IF Len(parts) = hostPortPartsCount
        THEN [s1 EXCEPT !.DestinationHost = Ptr(parts[1])]
        ELSE s1

parseEgressAddress(sock, address) ==
    LET s1    == [sock EXCEPT !.IsResolved = TRUE]
        parts == Split(address, ":")
    IN  IF Len(parts) = hostPortPartsCount
        THEN LET s2   == [s1 EXCEPT !.DestinationHost = Ptr(parts[1])]
                 port == Atoi(parts[2])
             IN  IF ~port.err THEN [s2 EXCEPT !.DestinationPort = Ptr(port.v)] ELSE s2
        ELSE s1

\* the default port of the branch without a scheme prefix
rawURLDefaultPort == 80

\* variant of parseEgressURL that takes 443 as the default port of every scheme
parseEgressURLDefault443(sock, url) ==
    LET s1 == [sock EXCEPT !.IsResolved = TRUE]
        https == HasPrefix(url, "https://")
        http  == ~https /\ HasPrefix(url, "http://")
        s2 == IF https THEN [s1 EXCEPT !.Protocol = ProtocolHTTPS]
              ELSE IF http THEN [s1 EXCEPT !.Protocol = ProtocolHTTP]
              ELSE s1
        remainingURL == IF https THEN SubSeq(url, 9, Len(url))
                        ELSE IF http THEN SubSeq(url, 8, Len(url))
                        ELSE url
        defaultPort == IF https \/ http THEN 443 ELSE rawURLDefaultPort
        parts == Split(remainingURL, "/")
    IN  IF Len(parts) > 0 /\ parts[1] # ""
        THEN LET hostPort == parts[1]
             IN  IF Contains(hostPort, ":")
                 THEN LET hostPortParts == Split(hostPort, ":")
                      IN  IF Len(hostPortParts) >= hostPortPartsCount
                          THEN LET s3   == [s2 EXCEPT !.DestinationHost = Ptr(hostPortParts[1])]
                                   port == Atoi(hostPortParts[2])
                               IN  IF ~port.err
                                   THEN [s3 EXCEPT !.DestinationPort = Ptr(port.v)]
                                   ELSE s3
                          ELSE s2
                 ELSE [s2 EXCEPT !.DestinationHost = Ptr(hostPort),
                                 !.DestinationPort = Ptr(defaultPort)]
        ELSE s2

\* variant of parseEgressURL that sets no port for a URL without scheme and without ':'
parseEgressURLNoRawDefault(sock, url) ==
    LET s1 == [sock EXCEPT !.IsResolved = TRUE]
        https == HasPrefix(url, "https://")
        http  == ~https /\ HasPrefix(url, "http://")
        s2 == IF https THEN [s1 EXCEPT !.Protocol = ProtocolHTTPS]
              ELSE IF http THEN [s1 EXCEPT !.Protocol = ProtocolHTTP]
              ELSE s1
        remainingURL == IF https THEN SubSeq(url, 9, Len(url))
                        ELSE IF http THEN SubSeq(url, 8, Len(url))
                        ELSE url
        parts == Split(remainingURL, "/")
    IN  IF Len(parts) > 0 /\ parts[1] # ""
        THEN LET hostPort == parts[1]
             IN  IF Contains(hostPort, ":")
                 THEN LET hostPortParts == Split(hostPort, ":")
                      IN  IF Len(hostPortParts) >= hostPortPartsCount
                          THEN LET s3   == [s2 EXCEPT !.DestinationHost = Ptr(hostPortParts[1])]
                                   port == Atoi(hostPortParts[2])
                               IN  IF ~port.err
                                   THEN [s3 EXCEPT !.DestinationPort = Ptr(port.v)]
                                   ELSE s3
                          ELSE s2
                 ELSE IF https THEN [s2 EXCEPT !.DestinationHost = Ptr(hostPort),
                                               !.DestinationPort = Ptr(443)]
                 ELSE IF http THEN [s2 EXCEPT !.DestinationHost = Ptr(hostPort),
                                              !.DestinationPort = Ptr(80)]
                 ELSE [s2 EXCEPT !.DestinationHost = Ptr(hostPort)]
        ELSE s2

parseEgressURL(sock, url) ==
    LET s1 == [sock EXCEPT !.IsResolved = TRUE]
        https == HasPrefix(url, "https://")
        http  == ~https /\ HasPrefix(url, "http://")
        s2 == IF https THEN [s1 EXCEPT !.Protocol = ProtocolHTTPS]
              ELSE IF http THEN [s1 EXCEPT !.Protocol = ProtocolHTTP]
              ELSE s1
        remainingURL == IF https THEN SubSeq(url, 9, Len(url))
                        ELSE IF http THEN SubSeq(url, 8, Len(url))
                        ELSE url
        defaultPort == IF https THEN 443 ELSE IF http THEN 80 ELSE rawURLDefaultPort
        parts == Split(remainingURL, "/")
    IN  IF Len(parts) > 0 /\ parts[1] # ""
        THEN LET hostPort == parts[1]
             IN  IF Contains(hostPort, ":")
                 THEN LET hostPortParts == Split(hostPort, ":")
                      IN  IF Len(hostPortParts) >= hostPortPartsCount
                          THEN LET s3   == [s2 EXCEPT !.DestinationHost = Ptr(hostPortParts[1])]
                                   port == Atoi(hostPortParts[2])
                               IN  IF ~port.err
                                   THEN [s3 EXCEPT !.DestinationPort = Ptr(port.v)]
                                   ELSE s3
                          ELSE s2
                 ELSE [s2 EXCEPT !.DestinationHost = Ptr(hostPort),
                                 !.DestinationPort = Ptr(defaultPort)]
        ELSE s2

matchIngressPattern(callExpr, pattern, funcName) ==
    IF Len(callExpr.args) <= pattern.AddressArg
    THEN Nil
    ELSE LET addressArg == callExpr.args[pattern.AddressArg + 1]
             rawValue   == extractStringLiteral(addressArg)
             sock       == SocketInfo(TrafficTypeIngress, pattern.Protocol, rawValue,
                                      funcName, extractContainingFunction(callExpr))
         IN  IF rawValue # ""
             THEN Ptr(parseIngressAddress(sock, rawValue, pattern.PortOnly))
             ELSE Ptr(sock)

\* variant of matchEgressPattern that gives a bare record when the argument is missing
matchEgressPatternUnchecked(callExpr, pattern, funcName) ==
    LET isURL == /\ pattern.URLArg >= 0
                 /\ funcName \in {"http.Get", "http.Post", "http.PostForm"}
        argIndex == IF isURL THEN pattern.URLArg ELSE pattern.AddressArg
        bare == SocketInfo(TrafficTypeEgress, pattern.Protocol, "",
                           funcName, extractContainingFunction(callExpr))
    IN  IF Len(callExpr.args) <= argIndex
        THEN Ptr(bare)
        ELSE LET rawValue == extractStringLiteral(callExpr.args[argIndex + 1])
                 sock     == [bare EXCEPT !.RawValue = rawValue]
             IN  IF rawValue # ""
                 THEN IF isURL
                      THEN Ptr(parseEgressURL(sock, rawValue))
                      ELSE Ptr(parseEgressAddress(sock, rawValue))
                 ELSE Ptr(sock)

matchEgressPattern(callExpr, pattern, funcName) ==
    LET isURL == /\ pattern.URLArg >= 0
                 /\ funcName \in {"http.Get", "http.Post", "http.PostForm"}
        argIndex == IF isURL THEN pattern.URLArg ELSE pattern.AddressArg
    IN  IF Len(callExpr.args) <= argIndex
        THEN Nil
        ELSE LET arg      == callExpr.args[argIndex + 1]
                 rawValue == extractStringLiteral(arg)
                 sock     == SocketInfo(TrafficTypeEgress, pattern.Protocol, rawValue,
                                        funcName, extractContainingFunction(callExpr))
             IN  IF rawValue # ""
                 THEN IF isURL
                      THEN Ptr(parseEgressURL(sock, rawValue))
                      ELSE Ptr(parseEgressAddress(sock, rawValue))
                 ELSE Ptr(sock)

\* nil, or a pointer to the preliminary record
MatchSocketPattern(callExpr) ==
    LET funcName == extractFunctionName(callExpr)
    IN  IF funcName = "" THEN Nil
        ELSE IF funcName \in DOMAIN ingressPatterns
             THEN matchIngressPattern(callExpr, ingressPatterns[funcName], funcName)
        ELSE IF funcName \in DOMAIN egressPatterns
             THEN matchEgressPattern(callExpr, egressPatterns[funcName], funcName)
        ELSE Nil

----------------------------------------------------------------------------
(* internal/resolver                                                       *)

\* a top-level declaration of a file: a GenDecl holding specs, or a FuncDecl
GenDecl(specs) == [t |-> "GenDecl", specs |-> specs]

ValueSpec(names, values) == [t |-> "ValueSpec", names |-> names, values |-> values]

ImportSpec == [t |-> "ImportSpec"]

FuncDecl == [t |-> "FuncDecl"]

\* the places <<declaration, spec, name>> where resolveIdentifier's loops return a value
identifierBindings(ident, f) ==
    LET places ==
            UNION { UNION { { <<d, sp, i>> : i \in 1..Len(f.decls[d].specs[sp].names) } :
                            sp \in { k \in 1..Len(f.decls[d].specs) :
                                        f.decls[d].specs[k].t = "ValueSpec" } } :
                    d \in { k \in 1..Len(f.decls) : f.decls[k].t = "GenDecl" } }
    IN  { b \in places :
            LET valueSpec == f.decls[b[1]].specs[b[2]]
            IN  /\ valueSpec.names[b[3]] = ident.name
                /\ b[3] - 1 < Len(valueSpec.values)
                /\ valueSpec.values[b[3]].t = "BasicLit"
                /\ valueSpec.values[b[3]].kind = "STRING"
                /\ ~Unquote(valueSpec.values[b[3]].value).err }

bindingBefore(a, b) ==
    \/ a[1] < b[1]
    \/ a[1] = b[1] /\ a[2] < b[2]
    \/ a[1] = b[1] /\ a[2] = b[2] /\ a[3] <= b[3]

resolveIdentifier(ident, f) ==
    LET found == identifierBindings(ident, f)
    IN  IF found = {} THEN ""
        ELSE LET b == CHOOSE x \in found : \A y \in found : bindingBefore(x, y)
             IN  Unquote(f.decls[b[1]].specs[b[2]].values[b[3]].value).v

parseIngressValue(sock, value) ==
    IF value # "" /\ SubSeq(value, 1, 1) = ":"
    THEN LET port == Atoi(SubSeq(value, 2, Len(value)))
         IN  IF ~port.err
             THEN [sock EXCEPT !.ListenPort = Ptr(port.v), !.ListenInterface = "0.0.0.0"]
             ELSE sock
    ELSE sock

parseEgressValue(sock, value) ==
    IF Contains(value, "://")
    THEN sock
    ELSE LET parts == Split(value, ":")
         IN  IF Len(parts) = 2
             THEN LET s1   == [sock EXCEPT !.DestinationHost = Ptr(parts[1])]
                      port == Atoi(parts[2])
                  IN  IF ~port.err THEN [s1 EXCEPT !.DestinationPort = Ptr(port.v)] ELSE s1
             ELSE sock

updateSocketWithResolvedValue(sock, value) ==
    LET s1 == [sock EXCEPT !.RawValue = value, !.IsResolved = TRUE]
    IN  CASE s1.Type = TrafficTypeIngress -> parseIngressValue(s1, value)
          [] s1.Type = TrafficTypeEgress  -> parseEgressValue(s1, value)
          [] OTHER -> s1

\* variant of analyzeVariablePattern that guesses port 8080 for a local test server
analyzeVariablePatternGuessingPort(varName) ==
    CASE Contains(varName, "server.URL") \/ Contains(varName, "httptest") ->
            [host |-> "localhost", port |-> 8080, resolved |-> TRUE]
      [] Contains(varName, "localhost") \/ Contains(varName, "127.0.0.1") ->
            [host |-> "localhost", port |-> 8080, resolved |-> TRUE]
      [] Contains(varName, "URL") /\ (Contains(varName, "api") \/ Contains(varName, "service")) ->
            [host |-> "external-service", port |-> 0, resolved |-> TRUE]
      [] OTHER -> [host |-> "", port |-> 0, resolved |-> FALSE]

analyzeVariablePattern(varName) ==
    CASE Contains(varName, "server.URL") \/ Contains(varName, "httptest") ->
            [host |-> "localhost", port |-> 0, resolved |-> TRUE]
      [] Contains(varName, "localhost") \/ Contains(varName, "127.0.0.1") ->
            [host |-> "localhost", port |-> 0, resolved |-> TRUE]
      [] Contains(varName, "URL") /\ (Contains(varName, "api") \/ Contains(varName, "service")) ->
            [host |-> "external-service", port |-> 0, resolved |-> TRUE]
      [] OTHER -> [host |-> "", port |-> 0, resolved |-> FALSE]

RECURSIVE extractSelectorParts(_)
extractSelectorParts(expr) ==
    IF expr.x.t = "Ident" THEN <<expr.x.name, expr.sel>>
    ELSE IF expr.x.t = "SelectorExpr" THEN extractSelectorParts(expr.x) \o <<expr.sel>>
    ELSE <<expr.sel>>

extractSelectorName(expr) == Join(extractSelectorParts(expr), ".")

\* variant of applyVariablePattern that also turns the record into an egress record
applyVariablePatternAsEgress(sock, guess, name) ==
    LET s1 == [sock EXCEPT !.IsResolved = TRUE, !.DestinationHost = Ptr(guess.host),
                           !.Type = TrafficTypeEgress]
        s2 == IF guess.port > 0 THEN [s1 EXCEPT !.DestinationPort = Ptr(guess.port)] ELSE s1
    IN  [s2 EXCEPT !.RawValue = name]

\* the record after the heuristic of analyzeVariablePattern matched name
applyVariablePattern(sock, guess, name) ==
    LET s1 == [sock EXCEPT !.IsResolved = TRUE, !.DestinationHost = Ptr(guess.host)]
        s2 == IF guess.port > 0 THEN [s1 EXCEPT !.DestinationPort = Ptr(guess.port)] ELSE s1
    IN  [s2 EXCEPT !.RawValue = name]

parseURLForSocket(sock, urlIn) ==
    LET https == HasPrefix(urlIn, "https://")
        http  == ~https /\ HasPrefix(urlIn, "http://")
        s1 == IF https
              THEN [sock EXCEPT !.Protocol = ProtocolHTTPS, !.DestinationPort = Ptr(443)]
              ELSE IF http
              THEN [sock EXCEPT !.Protocol = ProtocolHTTP, !.DestinationPort = Ptr(80)]
              ELSE sock
        url == IF https THEN SubSeq(urlIn, 9, Len(urlIn))
               ELSE IF http THEN SubSeq(urlIn, 8, Len(urlIn))
               ELSE urlIn
        parts == Split(url, "/")
    IN  IF Len(parts) > 0 /\ parts[1] # ""
        THEN LET hostPort == parts[1]
             IN  IF Contains(hostPort, ":")
                 THEN LET hostPortParts == Split(hostPort, ":")
                      IN  IF Len(hostPortParts) >= 2
                          THEN LET s2   == [s1 EXCEPT !.DestinationHost = Ptr(hostPortParts[1])]
                                   port == Atoi(hostPortParts[2])
                               IN  IF ~port.err
                                   THEN [s2 EXCEPT !.DestinationPort = Ptr(port.v)]
                                   ELSE s2
                          ELSE s1
                 ELSE [s1 EXCEPT !.DestinationHost = Ptr(hostPort)]
        ELSE s1

\* each try... operator gives [ok |-> the bool returned, sock |-> the record afterwards]
tryResolveBinaryExpr(sock, expr, f) ==
    IF expr.op = "+" /\ expr.x.t = "Ident" /\ resolveIdentifier(expr.x, f) # ""
    THEN LET baseValue == resolveIdentifier(expr.x, f)
             s1 == [sock EXCEPT !.IsResolved = TRUE, !.RawValue = baseValue \o " + ..."]
         IN  [ok   |-> TRUE,
              sock |-> IF Contains(baseValue, "://")
                       THEN parseURLForSocket(s1, baseValue)
                       ELSE parseEgressValue(s1, baseValue)]
    ELSE [ok |-> FALSE, sock |-> sock]

tryResolveCallExpr(sock, expr, f) ==
    IF expr.fun.t = "SelectorExpr"
    THEN LET funcName == extractSelectorName(expr.fun)
         IN  CASE Contains(funcName, "String") /\ Contains(funcName, "URL") ->
                    [ok   |-> TRUE,
                     sock |-> [sock EXCEPT !.IsResolved = TRUE,
                                           !.RawValue = "parsed-url",
                                           !.DestinationHost = Ptr("parsed-url-host")]]
               [] Contains(funcName, "getURL") \/ Contains(funcName, "GetURL") ->
                    [ok   |-> TRUE,
                     sock |-> [sock EXCEPT !.IsResolved = TRUE,
                                           !.RawValue = funcName \o "()",
                                           !.DestinationHost = Ptr("dynamic-url")]]
               [] OTHER -> [ok |-> FALSE, sock |-> sock]
    ELSE [ok |-> FALSE, sock |-> sock]

\* variant of tryResolveArgument that classifies an identifier by name before it looks
\* for a declaration
tryResolveArgumentHeuristicFirst(sock, arg, f) ==
    CASE arg.t = "Ident" ->
            IF analyzeVariablePattern(arg.name).resolved
            THEN [ok   |-> TRUE,
                  sock |-> applyVariablePattern(sock, analyzeVariablePattern(arg.name), arg.name)]
            ELSE IF resolveIdentifier(arg, f) # ""
            THEN [ok |-> TRUE, sock |-> updateSocketWithResolvedValue(sock, resolveIdentifier(arg, f))]
            ELSE [ok |-> FALSE, sock |-> sock]
      [] arg.t = "SelectorExpr" ->
            LET varName == extractSelectorName(arg)
            IN  IF analyzeVariablePattern(varName).resolved
                THEN [ok   |-> TRUE,
                      sock |-> applyVariablePattern(sock, analyzeVariablePattern(varName), varName)]
                ELSE [ok |-> FALSE, sock |-> sock]
      [] arg.t = "BinaryExpr" -> tryResolveBinaryExpr(sock, arg, f)
      [] arg.t = "CallExpr" -> tryResolveCallExpr(sock, arg, f)
      [] OTHER -> [ok |-> FALSE, sock |-> sock]

tryResolveArgument(sock, arg, f) ==
    CASE arg.t = "Ident" ->
            IF resolveIdentifier(arg, f) # ""
            THEN [ok |-> TRUE, sock |-> updateSocketWithResolvedValue(sock, resolveIdentifier(arg, f))]
            ELSE IF analyzeVariablePattern(arg.name).resolved
            THEN [ok   |-> TRUE,
                  sock |-> applyVariablePattern(sock, analyzeVariablePattern(arg.name), arg.name)]
            ELSE [ok |-> FALSE, sock |-> sock]
      [] arg.t = "SelectorExpr" ->
            LET varName == extractSelectorName(arg)
            IN  IF analyzeVariablePattern(varName).resolved
                THEN [ok   |-> TRUE,
                      sock |-> applyVariablePattern(sock, analyzeVariablePattern(varName), varName)]
                ELSE [ok |-> FALSE, sock |-> sock]
      [] arg.t = "BinaryExpr" -> tryResolveBinaryExpr(sock, arg, f)
      [] arg.t = "CallExpr" -> tryResolveCallExpr(sock, arg, f)
      [] OTHER -> [ok |-> FALSE, sock |-> sock]

\* the argument ResolveValues examines: nil, or a pointer to the expression
resolverArgument(sock, callExpr) ==
    IF sock.PatternMatch \in {"http.Get", "http.Post", "http.PostForm"}
    THEN IF Len(callExpr.args) > 0 THEN Ptr(callExpr.args[1]) ELSE Nil
    ELSE IF Len(callExpr.args) > 1 THEN Ptr(callExpr.args[2]) ELSE Nil

\* variant of ResolveValues without the early return on an already resolved record
ResolveValuesUnguarded(sock, callExpr, f) ==
    LET urlArg == resolverArgument(sock, callExpr)
    IN  IF urlArg = Nil THEN sock
        ELSE tryResolveArgument(sock, Deref(urlArg), f).sock

\* the record *socket after ResolveValues(socket, callExpr, file)
ResolveValues(sock, callExpr, f) ==
    IF sock.IsResolved THEN sock
    ELSE LET urlArg == resolverArgument(sock, callExpr)
         IN  IF urlArg = Nil THEN sock
             ELSE tryResolveArgument(sock, Deref(urlArg), f).sock

----------------------------------------------------------------------------
(* pkg/analyzer                                                            *)

\* filepath.Dir and filepath.Base of a clean slash-separated path
Dir(path) ==
    LET i == LastIndex(path, "/")
    IN  IF i = 0 THEN "." ELSE IF i = 1 THEN "/" ELSE SubSeq(path, 1, i - 1)

Base(path) ==
    IF path = "" THEN "."
    ELSE IF path = "/" THEN "/"
    ELSE SubSeq(path, LastIndex(path, "/") + 1, Len(path))

\* a regular file: what os.ReadFile and parser.ParseFile make of it
SourceFile(path, parses, pkg, decls, calls) ==
    [path |-> path, isDir |-> FALSE, parses |-> parses, pkg |-> pkg,
     decls |-> decls, calls |-> calls]

\* a directory that filepath.Walk hands to the callback
DirEntry(path) == [path |-> path, isDir |-> TRUE]

NoFile == [path |-> "", isDir |-> FALSE, parses |-> FALSE, pkg |-> "",
           decls |-> <<>>, calls |-> <<>>]

NoCall == [t |-> "none"]

RECURSIVE CallExprsIn(_)
RECURSIVE CallExprsInAll(_)
\* the call expressions ast.Walk reaches in an expression, in the order it visits them
CallExprsIn(expr) ==
    CASE expr.t = "CallExpr" -> <<expr>> \o CallExprsIn(expr.fun) \o CallExprsInAll(expr.args)
      [] expr.t = "SelectorExpr" -> CallExprsIn(expr.x)
      [] expr.t = "BinaryExpr" -> CallExprsIn(expr.x) \o CallExprsIn(expr.y)
      [] OTHER -> <<>>

CallExprsInAll(exprs) ==
    IF Len(exprs) = 0 THEN <<>>
    ELSE CallExprsIn(Head(exprs)) \o CallExprsInAll(Tail(exprs))

NewResults == [Sockets |-> <<>>, TotalCount |-> 0, IngressCount |-> 0, EgressCount |-> 0]

RECURSIVE countType(_, _)
countType(sockets, type) ==
    IF Len(sockets) = 0 THEN 0
    ELSE (IF Head(sockets).Type = type THEN 1 ELSE 0) + countType(Tail(sockets), type)

\* variant of updateCounts that does not zero the direction counts before counting
updateCountsAccumulating(r) ==
    [r EXCEPT !.TotalCount   = Len(r.Sockets),
              !.IngressCount = r.IngressCount + countType(r.Sockets, TrafficTypeIngress),
              !.EgressCount  = r.EgressCount + countType(r.Sockets, TrafficTypeEgress)]

updateCounts(r) ==
    [r EXCEPT !.TotalCount   = Len(r.Sockets),
              !.IngressCount = countType(r.Sockets, TrafficTypeIngress),
              !.EgressCount  = countType(r.Sockets, TrafficTypeEgress)]

deriveProcessName(f) ==
    IF f.pkg = "main" THEN Base(Dir(f.path)) ELSE f.pkg

\* what an Analyze call handed back: (a.results, nil) or (nil, err); seen is the
\* content of a.results at that moment
ReturnResults(r) == [results |-> Ptr("a.results"), err |-> FALSE, seen |-> r]

ReturnError == [results |-> Nil, err |-> TRUE, seen |-> NewResults]

Idle == /\ walk' = [inDir |-> FALSE, paths |-> <<>>]
        /\ file' = NoFile
        /\ todo' = <<>>
        /\ pc' = "idle"

\* Analyze: os.Stat, then analyzeDirectory or analyzeFile
Analyze(target) ==
    /\ pc = "idle"
    /\ Len(returned) < world.runs
    /\ call' = NoCall
    /\ socket' = Nil
    /\ CASE target.kind = "missing" ->
                /\ returned' = Append(returned, ReturnError)
                /\ Idle
         [] target.kind = "dir" ->
                /\ walk' = [inDir |-> TRUE, paths |-> target.paths]
                /\ pc' = "walk"
                /\ UNCHANGED <<returned, file, todo>>
         [] target.kind = "file" ->
                /\ walk' = [inDir |-> FALSE, paths |-> <<>>]
                /\ file' = target.file
                /\ pc' = "parse"
                /\ UNCHANGED <<returned, todo>>
    /\ asked' = Append(asked, target)
    /\ UNCHANGED <<world, writer, gor, results>>

\* variant of WalkFunc that analyses every *.go file, vendored or not
WalkFuncAllGoFiles ==
    /\ pc = "walk"
    /\ Len(walk.paths) > 0
    /\ LET entry == Head(walk.paths)
       IN  /\ walk' = [walk EXCEPT !.paths = Tail(walk.paths)]
           /\ IF ~HasSuffix(entry.path, ".go")
              THEN UNCHANGED <<file, pc>>
              ELSE file' = entry /\ pc' = "parse"
    /\ UNCHANGED <<world, writer, gor, asked, results, returned, todo, call, socket>>

\* analyzeDirectory: the callback filepath.Walk calls with the next path
WalkFunc ==
    /\ pc = "walk"
    /\ Len(walk.paths) > 0
    /\ LET entry == Head(walk.paths)
       IN  /\ walk' = [walk EXCEPT !.paths = Tail(walk.paths)]
           /\ IF ~HasSuffix(entry.path, ".go") \/ Contains(entry.path, "vendor/")
              THEN UNCHANGED <<file, pc>>
              ELSE file' = entry /\ pc' = "parse"
    /\ UNCHANGED <<world, writer, gor, asked, results, returned, todo, call, socket>>

\* analyzeDirectory: filepath.Walk is done without an error
WalkDone ==
    /\ pc = "walk"
    /\ Len(walk.paths) = 0
    /\ results' = updateCounts(results)
    /\ returned' = Append(returned, ReturnResults(results'))
    /\ Idle
    /\ UNCHANGED <<world, writer, gor, asked, call, socket>>

\* variant of ParseFile that, inside a directory walk, skips a file that does not parse
ParseFileSkipping ==
    /\ pc = "parse"
    /\ IF file.isDir \/ ~file.parses
       THEN IF walk.inDir
            THEN /\ pc' = "walk"
                 /\ file' = NoFile
                 /\ UNCHANGED <<returned, walk, todo>>
            ELSE /\ returned' = Append(returned, ReturnError)
                 /\ Idle
       ELSE /\ todo' = CallExprsInAll(file.calls)
            /\ pc' = "visit"
            /\ UNCHANGED <<returned, walk, file>>
    /\ UNCHANGED <<world, writer, gor, asked, results, call, socket>>

\* analyzeFile: os.ReadFile and parser.ParseFile
ParseFile ==
    /\ pc = "parse"
    /\ IF file.isDir \/ ~file.parses
       THEN /\ returned' = Append(returned, ReturnError)
            /\ Idle
       ELSE /\ todo' = CallExprsInAll(file.calls)
            /\ pc' = "visit"
            /\ UNCHANGED <<returned, walk, file>>
    /\ UNCHANGED <<world, writer, gor, asked, results, call, socket>>

\* astVisitor.Visit, first part: MatchSocketPattern and the source attributes
VisitMatch ==
    /\ pc = "visit"
    /\ Len(todo) > 0
    /\ call' = Head(todo)
    /\ todo' = Tail(todo)
    /\ LET m == MatchSocketPattern(call')
       IN  IF m = Nil
           THEN socket' = Nil /\ pc' = "visit"
           ELSE /\ socket' = Ptr([Deref(m) EXCEPT
                                    !.SourceFile = file.path,
                                    !.SourceLine = call'.line,
                                    !.ProcessName = IF Deref(m).ProcessName = ""
                                                    THEN deriveProcessName(file)
                                                    ELSE Deref(m).ProcessName])
                /\ pc' = "resolve"
    /\ UNCHANGED <<world, writer, gor, asked, results, returned, walk, file>>

\* astVisitor.Visit, second part: ResolveValues on the matched record
VisitResolve ==
    /\ pc = "resolve"
    /\ socket' = Ptr(ResolveValues(Deref(socket), call, file))
    /\ pc' = "append"
    /\ UNCHANGED <<world, writer, gor, asked, results, returned, walk, file, todo, call>>

\* variant of VisitAppend that puts the record in front of the sequence
VisitAppendInFront ==
    /\ pc = "append"
    /\ results' = [results EXCEPT !.Sockets = <<Deref(socket)>> \o results.Sockets]
    /\ pc' = "visit"
    /\ UNCHANGED <<world, writer, gor, asked, returned, walk, file, todo, call, socket>>

\* astVisitor.Visit, last part: the record is appended to a.results.Sockets
VisitAppend ==
    /\ pc = "append"
    /\ results' = [results EXCEPT !.Sockets = Append(results.Sockets, Deref(socket))]
    /\ pc' = "visit"
    /\ UNCHANGED <<world, writer, gor, asked, returned, walk, file, todo, call, socket>>

\* analyzeFile: ast.Walk is done and the visitor's locals are gone; updateCounts and
\* return to Analyze or to the callback
FileDone ==
    /\ pc = "visit"
    /\ Len(todo) = 0
    /\ results' = updateCounts(results)
    /\ IF walk.inDir
       THEN /\ pc' = "walk"
            /\ file' = NoFile
            /\ UNCHANGED <<returned, walk, todo>>
       ELSE /\ returned' = Append(returned, ReturnResults(results'))
            /\ Idle
    /\ call' = NoCall
    /\ socket' = Nil
    /\ UNCHANGED <<world, writer, gor, asked>>

Next ==
    \/ \E target \in world.targets : Analyze(target)
    \/ WalkFunc
    \/ WalkDone
    \/ ParseFile
    \/ VisitMatch
    \/ VisitResolve
    \/ VisitAppend
    \/ FileDone

----------------------------------------------------------------------------
(* pkg/types: Export, as main calls it on the result of Analyze.           *)

\* how many Export calls the caller makes
MaxExports == 2

\* strings.ToLower on ASCII text
LowerOf(c) ==
    LET upper == "ABCDEFGHIJKLMNOPQRSTUVWXYZ"
        lower == "abcdefghijklmnopqrstuvwxyz"
    IN  IF Index(upper, c) = 0 THEN c ELSE SubSeq(lower, Index(upper, c), Index(upper, c))

RECURSIVE ToLower(_)
ToLower(s) ==
    IF Len(s) = 0 THEN "" ELSE LowerOf(SubSeq(s, 1, 1)) \o ToLower(SubSeq(s, 2, Len(s)))

\* fmt.Sprintf("%d", n)
RECURSIVE Digits(_)
Digits(n) ==
    IF n < 10 THEN SubSeq("0123456789", n + 1, n + 1)
    ELSE Digits(n \div 10) \o SubSeq("0123456789", (n % 10) + 1, (n % 10) + 1)

FormatInt(n) == IF n < 0 THEN "-" \o Digits(0 - n) ELSE Digits(n)

\* fmt.Sprintf("%t", b)
FormatBool(b) == IF b THEN "true" ELSE "false"

formatIntPtr(ptr) == IF ptr = Nil THEN "" ELSE FormatInt(Deref(ptr))

formatStringPtr(ptr) == IF ptr = Nil THEN "" ELSE Deref(ptr)

csvHeaders ==
    <<"Type", "Protocol", "ProcessName", "SourceFile", "SourceLine", "FunctionName",
      "ListenPort", "ListenInterface", "DestinationHost", "DestinationPort",
      "IsResolved", "RawValue", "PatternMatch">>

csvRecord(sock) ==
    <<sock.Type, sock.Protocol, sock.ProcessName, sock.SourceFile,
      FormatInt(sock.SourceLine), sock.FunctionName,
      formatIntPtr(sock.ListenPort), sock.ListenInterface,
      formatStringPtr(sock.DestinationHost), formatIntPtr(sock.DestinationPort),
      FormatBool(sock.IsResolved), sock.RawValue, sock.PatternMatch>>

\* what exportCSV writes: the header row, then one row per record
exportCSV(r) == <<csvHeaders>> \o [i \in 1..Len(r.Sockets) |-> csvRecord(r.Sockets[i])]

\* the keys and value texts the struct tags of SocketInfo give an encoder; omitempty
\* drops a nil pointer and an empty string
socketFields(sock) ==
    (IF sock.ListenPort = Nil THEN <<>> ELSE << <<"listen_port", formatIntPtr(sock.ListenPort)>> >>)
    \o (IF sock.DestinationHost = Nil THEN <<>>
        ELSE << <<"destination_host", Deref(sock.DestinationHost)>> >>)
    \o (IF sock.DestinationPort = Nil THEN <<>>
        ELSE << <<"destination_port", formatIntPtr(sock.DestinationPort)>> >>)
    \o << <<"process_name", sock.ProcessName>>, <<"source_file", sock.SourceFile>>,
          <<"function_name", sock.FunctionName>> >>
    \o (IF sock.ListenInterface = "" THEN <<>>
        ELSE << <<"listen_interface", sock.ListenInterface>> >>)
    \o << <<"raw_value", sock.RawValue>>, <<"pattern_match", sock.PatternMatch>>,
          <<"type", sock.Type>>, <<"protocol", sock.Protocol>>,
          <<"source_line", FormatInt(sock.SourceLine)>>,
          <<"is_resolved", FormatBool(sock.IsResolved)>> >>

\* the document an encoder writes for *r
resultFields(r) ==
    << <<"process_name", "">>,
       <<"sockets", [i \in 1..Len(r.Sockets) |-> socketFields(r.Sockets[i])]>>,
       <<"total_count", FormatInt(r.TotalCount)>>,
       <<"ingress_count", FormatInt(r.IngressCount)>>,
       <<"egress_count", FormatInt(r.EgressCount)>> >>

NoError == ""

\* a writer nothing was written to
NewWriter == [written |-> <<>>, err |-> NoError, format |-> "", calls |-> 0]

\* variant of Export that takes an unknown format for json
ExportDefaultJSON(format) ==
    /\ pc = "idle"
    /\ \E k \in 1..Len(returned) : ~returned[k].err
    /\ writer.calls < MaxExports
    /\ LET out == CASE ToLower(format) = "yaml" -> <<[yaml |-> resultFields(results)]>>
                    [] ToLower(format) = "csv"  -> <<[csv |-> exportCSV(results)]>>
                    [] OTHER -> <<[json |-> resultFields(results)]>>
       IN  writer' = [written |-> writer.written \o out, err |-> NoError,
                      format |-> format, calls |-> writer.calls + 1]
    /\ UNCHANGED <<world, results, returned, asked, gor, pc, walk, file, todo, call, socket>>

\* AnalysisResults.Export(writer, format) on the result Analyze returned
Export(format) ==
    /\ pc = "idle"
    /\ \E k \in 1..Len(returned) : ~returned[k].err
    /\ writer.calls < MaxExports
    /\ CASE ToLower(format) = "json" ->
                writer' = [written |-> Append(writer.written, [json |-> resultFields(results)]),
                           err |-> NoError, format |-> format, calls |-> writer.calls + 1]
         [] ToLower(format) = "yaml" ->
                writer' = [written |-> Append(writer.written, [yaml |-> resultFields(results)]),
                           err |-> NoError, format |-> format, calls |-> writer.calls + 1]
         [] ToLower(format) = "csv" ->
                writer' = [written |-> Append(writer.written, [csv |-> exportCSV(results)]),
                           err |-> NoError, format |-> format, calls |-> writer.calls + 1]
         [] OTHER ->
                writer' = [written |-> writer.written,
                           err |-> "unsupported format: " \o format,
                           format |-> format, calls |-> writer.calls + 1]
    /\ UNCHANGED <<world, results, returned, asked, gor, pc, walk, file, todo, call, socket>>

\* a caller that holds the returned pointer drops the record at index i of its Sockets
CallerRemoves(i) ==
    /\ pc = "idle"
    /\ \E k \in 1..Len(returned) : ~returned[k].err
    /\ i \in 1..Len(results.Sockets)
    /\ results' = [results EXCEPT !.Sockets =
                        SubSeq(results.Sockets, 1, i - 1)
                        \o SubSeq(results.Sockets, i + 1, Len(results.Sockets))]
    /\ UNCHANGED <<world, returned, asked, writer, gor, pc, walk, file, todo, call, socket>>

----------------------------------------------------------------------------
(* A caller that runs Analyze on files from several goroutines, on one     *)
(* Analyzer. Nothing in Analyzer synchronises: the statement               *)
(* a.results.Sockets = append(a.results.Sockets, *socket) reads the slice  *)
(* and writes it back in two steps that other goroutines may come between. *)

\* how many goroutines the caller starts
MaxGoroutines == 2

Goroutines == 1..MaxGoroutines

\* a goroutine the caller has not started: the locals of analyzeFile and Visit
GoOff == [pc |-> "off", file |-> NoFile, todo |-> <<>>, socket |-> Nil, snap |-> <<>>]

\* go a.Analyze(path) on a file: os.Stat, os.ReadFile and parser.ParseFile
GoAnalyze(g, target) ==
    /\ gor[g].pc = "off"
    /\ target.kind = "file"
    /\ asked' = Append(asked, target)
    /\ IF target.file.isDir \/ ~target.file.parses
       THEN /\ returned' = Append(returned, ReturnError)
            /\ gor' = [gor EXCEPT ![g].pc = "done"]
       ELSE /\ gor' = [gor EXCEPT ![g].pc = "visit", ![g].file = target.file,
                                  ![g].todo = CallExprsInAll(target.file.calls)]
            /\ UNCHANGED returned
    /\ UNCHANGED <<world, results, writer, pc, walk, file, todo, call, socket>>

\* astVisitor.Visit up to ResolveValues: all on the goroutine's own record
GoVisit(g) ==
    /\ gor[g].pc = "visit"
    /\ Len(gor[g].todo) > 0
    /\ LET c == Head(gor[g].todo)
           m == MatchSocketPattern(c)
       IN  IF m = Nil
           THEN gor' = [gor EXCEPT ![g].todo = Tail(gor[g].todo)]
           ELSE LET sock == [Deref(m) EXCEPT
                                !.SourceFile = gor[g].file.path,
                                !.SourceLine = c.line,
                                !.ProcessName = IF Deref(m).ProcessName = ""
                                                THEN deriveProcessName(gor[g].file)
                                                ELSE Deref(m).ProcessName]
                IN  gor' = [gor EXCEPT ![g].todo = Tail(gor[g].todo),
                                       ![g].socket = Ptr(ResolveValues(sock, c, gor[g].file)),
                                       ![g].pc = "load"]
    /\ UNCHANGED <<world, results, returned, asked, writer, pc, walk, file, todo, call, socket>>

\* the append statement, first half: read a.results.Sockets
GoLoad(g) ==
    /\ gor[g].pc = "load"
    /\ gor' = [gor EXCEPT ![g].snap = results.Sockets, ![g].pc = "store"]
    /\ UNCHANGED <<world, results, returned, asked, writer, pc, walk, file, todo, call, socket>>

\* the append statement, second half: write the slice read, grown by the record
GoStore(g) ==
    /\ gor[g].pc = "store"
    /\ results' = [results EXCEPT !.Sockets = Append(gor[g].snap, Deref(gor[g].socket))]
    /\ gor' = [gor EXCEPT ![g].snap = <<>>, ![g].pc = "visit"]
    /\ UNCHANGED <<world, returned, asked, writer, pc, walk, file, todo, call, socket>>

\* analyzeFile after ast.Walk: updateCounts and return a.results
GoDone(g) ==
    /\ gor[g].pc = "visit"
    /\ Len(gor[g].todo) = 0
    /\ results' = updateCounts(results)
    /\ returned' = Append(returned, ReturnResults(results'))
    /\ gor' = [gor EXCEPT ![g].pc = "done", ![g].file = NoFile, ![g].socket = Nil]
    /\ UNCHANGED <<world, asked, writer, pc, walk, file, todo, call, socket>>

----------------------------------------------------------------------------
(* The inputs: call expressions, files and targets.                        *)

\* the longest argument list of a call of the per-call-site inputs
MaxArgs == 3

\* how many Analyze calls the caller makes on one Analyzer in the aggregation runs
MaxRuns == 2

Schemes == {"", "http://", "https://"}

HostPorts == {"", "h", "h:80", ":80", "h:", "h:x", "h:-1", "h:1:2"}

UrlPaths == {"", "/p"}

\* address and URL texts: every scheme, host[:port] and path shape the parsers tell apart
Addresses ==
    { s \o hp \o p : <<s, hp, p>> \in Schemes \X HostPorts \X UrlPaths }
    \cup { "https://api.example.com/data", "http://localhost:8080/api",
           "https://api.service.com", "database.internal:5432", ":8080", "ftp://h",
           "[::1]:8080", ":-1" }

BoundNames == {"addr", "apiURL"}

\* argument expressions that are not string literals
NonLiteralExprs ==
    { Ident("addr"), Ident("apiURL"), Ident("localhostAddr"),
      SelectorExpr(Ident("server"), "URL"),
      SelectorExpr(Ident("cfg"), "Addr"),
      SelectorExpr(SelectorExpr(Ident("t"), "httptest"), "Addr"),
      BinaryExpr(Ident("apiURL"), "+", StringLit("/users")),
      BinaryExpr(Ident("addr"), "+", Ident("port")),
      BinaryExpr(Ident("addr"), "-", Ident("port")),
      BinaryExpr(StringLit("h"), "+", Ident("addr")),
      CallExpr(SelectorExpr(Ident("parsedURL"), "String"), <<>>, 7),
      CallExpr(SelectorExpr(Ident("cfg"), "GetURL"), <<>>, 7),
      CallExpr(SelectorExpr(Ident("os"), "Getenv"), <<StringLit("API_URL")>>, 7),
      CallExpr(Ident("getServiceURL"), <<>>, 7),
      BasicLit("INT", "8080"),
      OtherExpr }

\* the expressions among them whose resolution looks name up in the file's declarations
DeclExprs(name) ==
    { e \in NonLiteralExprs :
        \/ e.t = "Ident" /\ e.name = name
        \/ e.t = "BinaryExpr" /\ Ident(name) \in {e.x, e.y} }

LiteralExprs == { StringLit(s) : s \in Addresses }

\* arguments that stand before or after the one under study
Fillers == { StringLit("tcp"), Ident("apiURL") }

RECURSIVE Repeat(_, _)
Repeat(e, n) == IF n = 0 THEN <<>> ELSE <<e>> \o Repeat(e, n - 1)

\* argument lists of up to MaxArgs arguments with e in one place and fillers around it
ArgLists(e) ==
    { <<>> }
    \cup { Repeat(f, k) \o <<e>> : <<f, k>> \in Fillers \X (0..(MaxArgs - 1)) }
    \cup { <<e, f>> : f \in Fillers }

CatalogNames == DOMAIN ingressPatterns \cup DOMAIN egressPatterns

\* pkg.Name as the parser builds it
Qualified(pkg, name) == SelectorExpr(Ident(pkg), name)

CatalogCallees ==
    { Qualified(SubSeq(n, 1, Index(n, ".") - 1), SubSeq(n, Index(n, ".") + 1, Len(n))) :
        n \in CatalogNames }

\* callees the catalog does not list, or whose name cannot be extracted
OtherCallees ==
    { Qualified("fmt", "Println"), Qualified("http", "get"), Qualified("Net", "Listen"),
      Ident("Get"), Ident("Listen"),
      SelectorExpr(Qualified("client", "http"), "Get"),
      SelectorExpr(CallExpr(Ident("pkg"), <<>>, 7), "Get"),
      OtherExpr }

NoDecls == <<>>

Binding(name, s) == <<GenDecl(<<ValueSpec(<<name>>, <<StringLit(s)>>)>>)>>

\* declaration lists that exercise each test of resolveIdentifier
OddDecls ==
    { <<GenDecl(<<ImportSpec>>), FuncDecl, GenDecl(<<ValueSpec(<<"addr">>, <<OtherExpr>>)>>)>>,
      <<GenDecl(<<ValueSpec(<<"addr">>, <<>>)>>)>>,
      <<GenDecl(<<ValueSpec(<<"x", "addr">>, <<StringLit("h:80"), StringLit(":80")>>)>>)>>,
      <<GenDecl(<<ValueSpec(<<"addr">>, <<BasicLit("INT", "80")>>),
                  ValueSpec(<<"addr">>, <<StringLit("h:80")>>)>>),
        GenDecl(<<ValueSpec(<<"addr">>, <<StringLit("https://h")>>)>>)>>,
      <<GenDecl(<<ValueSpec(<<"addr">>, <<StringLit("")>>)>>)>> }

MainGo(decls, c) == SourceFile("svc/main.go", TRUE, "main", decls, <<c>>)

FileTarget(f) == [kind |-> "file", file |-> f]

DirTarget(paths) == [kind |-> "dir", paths |-> paths]

MissingTarget == [kind |-> "missing"]

\* a small source tree, its paths in the lexical order of filepath.Walk
ServerGo ==
    SourceFile("app/server.go", TRUE, "main", NoDecls,
               <<CallExpr(Qualified("http", "ListenAndServe"),
                          <<StringLit(":8080"), Ident("nil")>>, 4)>>)

ClientGo ==
    SourceFile("app/client.go", TRUE, "client", Binding("addr", "h:80"),
               <<CallExpr(Qualified("fmt", "Println"),
                          <<CallExpr(Qualified("http", "Get"), <<StringLit("https://h/p")>>, 4)>>,
                          4),
                 CallExpr(Qualified("net", "Dial"), <<StringLit("tcp"), Ident("addr")>>, 6)>>)

EmptyGo == SourceFile("app/empty.go", TRUE, "main", NoDecls, <<>>)

OtherTxt == SourceFile("app/other.txt", FALSE, "", NoDecls, <<>>)

VendorGo ==
    SourceFile("app/vendor/dep.go", TRUE, "vendor", NoDecls,
               <<CallExpr(Qualified("net", "Listen"),
                          <<StringLit("tcp"), StringLit(":9999")>>, 4)>>)

\* a vendored file that is no valid Go
VendorBadGo == SourceFile("app/vendor/bad.go", FALSE, "", NoDecls, <<>>)

InvalidGo == SourceFile("bad/invalid.go", FALSE, "", NoDecls, <<>>)

BadFirstGo ==
    SourceFile("bad/a.go", TRUE, "bad", NoDecls,
               <<CallExpr(Qualified("net", "ListenUDP"), <<StringLit("udp"), OtherExpr>>, 3)>>)

BadLastGo ==
    SourceFile("bad/z.go", TRUE, "bad", NoDecls,
               <<CallExpr(Qualified("http", "Post"),
                          <<SelectorExpr(Ident("server"), "URL")>>, 3)>>)

AppDir ==
    DirTarget(<<DirEntry("app"), ClientGo, EmptyGo, OtherTxt, ServerGo,
                DirEntry("app/vendor"), VendorBadGo, VendorGo>>)

BadDir == DirTarget(<<DirEntry("bad"), BadFirstGo, InvalidGo, BadLastGo>>)

TreeTargets ==
    { FileTarget(ServerGo), FileTarget(ClientGo), FileTarget(EmptyGo), FileTarget(InvalidGo),
      AppDir, BadDir, MissingTarget }

\* the world of one run over one file that holds one call site
CallSite(decls, fun, args) ==
    [targets |-> {FileTarget(MainGo(decls, CallExpr(fun, args, 5)))}, runs |-> 1]

InitAnalyzer ==
    /\ results = NewResults
    /\ returned = <<>>
    /\ asked = <<>>
    /\ writer = NewWriter
    /\ gor = [g \in Goroutines |-> GoOff]
    /\ pc = "idle"
    /\ walk = [inDir |-> FALSE, paths |-> <<>>]
    /\ file = NoFile
    /\ todo = <<>>
    /\ call = NoCall
    /\ socket = Nil

\* one call site per file: every callee with every literal or non-literal argument in a
\* file without declarations, and the declaration-dependent arguments under every binding
Init ==
    /\ \/ \E fun \in CatalogCallees \cup OtherCallees :
            \E e \in LiteralExprs \cup NonLiteralExprs :
                \E args \in ArgLists(e) : world = CallSite(NoDecls, fun, args)
       \/ \E name \in BoundNames, s \in Addresses, fun \in CatalogCallees :
            \E e \in DeclExprs(name) :
                \E args \in ArgLists(e) : world = CallSite(Binding(name, s), fun, args)
       \/ \E decls \in OddDecls, fun \in CatalogCallees :
            \E e \in DeclExprs("addr") :
                \E args \in ArgLists(e) : world = CallSite(decls, fun, args)
       \/ \E target \in {AppDir, BadDir, MissingTarget} :
            world = [targets |-> {target}, runs |-> 1]
    /\ InitAnalyzer

Spec == Init /\ [][Next]_vars

\* the caller makes up to MaxRuns Analyze calls on one Analyzer, each on any target of the tree
InitTree ==
    /\ world = [targets |-> TreeTargets, runs |-> MaxRuns]
    /\ InitAnalyzer

SpecTree == InitTree /\ [][Next]_vars

\* the format names a caller passes to Export
Formats == {"json", "YAML", "csv", "xml", ""}

\* main: Analyze, then Export; and a caller that filters the records it was handed
NextCaller ==
    \/ Next
    \/ \E format \in Formats : Export(format)
    \/ \E i \in 1..Len(results.Sockets) : CallerRemoves(i)

\* main makes one Analyzer and calls Analyze once, on any target of the tree
InitCaller ==
    /\ world = [targets |-> TreeTargets, runs |-> 1]
    /\ InitAnalyzer

SpecCaller == InitCaller /\ [][NextCaller]_vars

\* the caller starts MaxGoroutines goroutines, each analysing a file of the tree
InitRace ==
    /\ world = [targets |-> {FileTarget(ServerGo), FileTarget(ClientGo),
                             FileTarget(EmptyGo), FileTarget(InvalidGo)},
                runs |-> MaxGoroutines]
    /\ InitAnalyzer

NextRace ==
    \E g \in Goroutines :
        \/ \E target \in world.targets : GoAnalyze(g, target)
        \/ GoVisit(g)
        \/ GoLoad(g)
        \/ GoStore(g)
        \/ GoDone(g)

SpecRace == InitRace /\ [][NextRace]_vars

----------------------------------------------------------------------------
(* Vocabulary of the properties.                                           *)

HTTPClientNames == {"http.Get", "http.Post", "http.PostForm"}

\* the descriptor of a catalog entry as the specification words it
AddressArgumentIndex(name) ==
    IF name \in DOMAIN ingressPatterns THEN ingressPatterns[name].AddressArg
    ELSE IF name \in HTTPClientNames THEN egressPatterns[name].URLArg
    ELSE egressPatterns[name].AddressArg

CatalogDirection(name) ==
    IF name \in DOMAIN ingressPatterns THEN TrafficTypeIngress ELSE TrafficTypeEgress

CatalogProtocol(name) ==
    IF name \in DOMAIN ingressPatterns
    THEN ingressPatterns[name].Protocol
    ELSE egressPatterns[name].Protocol

\* the qualified name of a call: a bare identifier, or receiver.member with an identifier
\* as receiver; "" when there is none
QualifiedName(c) ==
    IF c.fun.t = "Ident" THEN c.fun.name
    ELSE IF c.fun.t = "SelectorExpr" /\ c.fun.x.t = "Ident"
    THEN c.fun.x.name \o "." \o c.fun.sel
    ELSE ""

\* the visitor has just run the matcher on call: socket is nil or the preliminary record
JustMatched == call # NoCall /\ (pc = "resolve" \/ (pc = "visit" /\ socket = Nil))

\* the visitor has run the resolver: socket is the record about to be appended
Finalized == pc = "append"

\* call names a catalog entry and supplies the argument at the descriptor's index
SuppliesAddress(c) ==
    /\ QualifiedName(c) \in CatalogNames
    /\ Len(c.args) >= AddressArgumentIndex(QualifiedName(c)) + 1

AddressArgument(c) == c.args[AddressArgumentIndex(QualifiedName(c)) + 1]

IsStringLiteral(e) == e.t = "BasicLit" /\ e.kind = "STRING"

\* the text a string literal denotes
LiteralText(e) == SubSeq(e.value, 2, Len(e.value) - 1)

NoFields(r) ==
    /\ r.ListenPort = Nil
    /\ r.ListenInterface = ""
    /\ r.DestinationHost = Nil
    /\ r.DestinationPort = Nil

\* the parts of a URL text: scheme, the segment before the first '/', and within the
\* segment the host before the first ':' and the port text after it
UrlScheme(u) ==
    IF HasPrefix(u, "https://") THEN "https" ELSE IF HasPrefix(u, "http://") THEN "http" ELSE ""

UrlRest(u) ==
    IF UrlScheme(u) = "https" THEN SubSeq(u, 9, Len(u))
    ELSE IF UrlScheme(u) = "http" THEN SubSeq(u, 8, Len(u))
    ELSE u

UrlSegment(u) ==
    LET rest == UrlRest(u)
    IN  IF Index(rest, "/") = 0 THEN rest ELSE SubSeq(rest, 1, Index(rest, "/") - 1)

SegmentHost(seg) == IF Index(seg, ":") = 0 THEN seg ELSE SubSeq(seg, 1, Index(seg, ":") - 1)

\* the text between the first ':' of the segment and the next ':' or the end
SegmentPortText(seg) ==
    LET after == SubSeq(seg, Index(seg, ":") + 1, Len(seg))
    IN  IF Index(after, ":") = 0 THEN after ELSE SubSeq(after, 1, Index(after, ":") - 1)

HasNumericPort(seg) == Index(seg, ":") # 0 /\ ~Atoi(SegmentPortText(seg)).err

SchemeDefaultPort(u) == IF UrlScheme(u) = "https" THEN 443 ELSE 80

\* the matcher has just produced a record for an HTTP client call with a literal URL
MatchedLiteralURL ==
    /\ pc = "resolve"
    /\ QualifiedName(call) \in HTTPClientNames
    /\ IsStringLiteral(AddressArgument(call))
    /\ LiteralText(AddressArgument(call)) # ""

----------------------------------------------------------------------------
(* Properties.                                                             *)

\* C1: every record in the Analysis Result populates only the optional fields of its
\* direction: an ingress record has no destination host or port, an egress record has no
\* listen port and an empty listen interface.
C1_FieldsMatchDirection ==
    \A i \in 1..Len(results.Sockets) :
        LET r == results.Sockets[i]
        IN  /\ r.Type = TrafficTypeIngress =>
                    r.DestinationHost = Nil /\ r.DestinationPort = Nil
            /\ r.Type = TrafficTypeEgress =>
                    r.ListenPort = Nil /\ r.ListenInterface = ""

\* C2: every record with resolved=true has at least one of listen_port, listen_interface,
\* destination_host, destination_port populated.
C2_ResolvedHasField ==
    \A i \in 1..Len(results.Sockets) :
        results.Sockets[i].IsResolved => ~NoFields(results.Sockets[i])

\* C3: a call that matches a catalog pattern and whose address argument is neither a
\* literal nor resolvable by any strategy yields exactly one record, unresolved and with
\* the four structured fields empty; and every unresolved record has them empty.
C3_UnresolvableArgument ==
    /\ Finalized /\ extractStringLiteral(AddressArgument(call)) = ""
                 /\ ~tryResolveArgument(Deref(socket), AddressArgument(call), file).ok
            => ~Deref(socket).IsResolved /\ NoFields(Deref(socket))
    /\ pc = "visit" /\ socket # Nil
            => Cardinality({ i \in 1..Len(results.Sockets) :
                                /\ results.Sockets[i].SourceFile = file.path
                                /\ results.Sockets[i].SourceLine = call.line }) = 1
    /\ \A i \in 1..Len(results.Sockets) :
            ~results.Sockets[i].IsResolved => NoFields(results.Sockets[i])

\* the record the pipeline produces for call c in file f (c matches the catalog)
FinalRecord(c, f) == ResolveValues(Deref(MatchSocketPattern(c)), c, f)

\* C4: an HTTP client call whose URL argument is a name bound at top level to a string
\* literal URL gives a record with the protocol, destination host and port, raw value and
\* resolved flag of the record for the same call with the literal written in place.
C4_ConstantLikeLiteral ==
    (/\ Finalized
     /\ Deref(socket).PatternMatch \in HTTPClientNames
     /\ call.args[1].t = "Ident"
     /\ UrlScheme(resolveIdentifier(call.args[1], file)) # "")
    => LET url     == resolveIdentifier(call.args[1], file)
           litCall == [call EXCEPT !.args[1] = StringLit(url)]
           lit     == FinalRecord(litCall, file)
           r       == Deref(socket)
       IN  /\ r.Protocol = lit.Protocol
           /\ r.DestinationHost = lit.DestinationHost
           /\ r.DestinationPort = lit.DestinationPort
           /\ r.RawValue = lit.RawValue
           /\ r.IsResolved = lit.IsResolved

\* C5, as the specification states it: a call naming a catalog entry with a string literal at the descriptor's
\* index produces a record with the descriptor's direction, protocol and pattern id, the
\* literal as raw value, and resolved=true.
C5_LiteralRecord ==
    (JustMatched /\ SuppliesAddress(call) /\ IsStringLiteral(AddressArgument(call)))
    => /\ socket # Nil
       /\ Deref(socket).Type = CatalogDirection(QualifiedName(call))
       /\ Deref(socket).Protocol = CatalogProtocol(QualifiedName(call))
       /\ Deref(socket).PatternMatch = QualifiedName(call)
       /\ Deref(socket).RawValue = LiteralText(AddressArgument(call))
       /\ Deref(socket).IsResolved

\* C5, as the code has it: the same for a non-empty string literal, the protocol being the
\* descriptor's except that an HTTP client pattern with a literal starting with https://
\* gives https; an empty literal gives an unresolved record with an empty raw value.
C5_NonEmptyLiteralRecord ==
    (JustMatched /\ SuppliesAddress(call) /\ IsStringLiteral(AddressArgument(call)))
    => LET name == QualifiedName(call)
           text == LiteralText(AddressArgument(call))
       IN  /\ socket # Nil
           /\ Deref(socket).Type = CatalogDirection(name)
           /\ Deref(socket).PatternMatch = name
           /\ Deref(socket).RawValue = text
           /\ Deref(socket).IsResolved = (text # "")
           /\ Deref(socket).Protocol =
                IF name \in HTTPClientNames /\ UrlScheme(text) = "https"
                THEN ProtocolHTTPS
                ELSE CatalogProtocol(name)

C5_Witness ==
    /\ pc = "resolve"
    /\ QualifiedName(call) = "http.Post"
    /\ IsStringLiteral(AddressArgument(call))
    /\ UrlScheme(LiteralText(AddressArgument(call))) = "https"
    /\ Deref(socket).IsResolved

\* the counts of an Analysis Result agree with its records
CountsAgree(r) ==
    /\ r.TotalCount = Len(r.Sockets)
    /\ r.IngressCount = Cardinality({ i \in 1..Len(r.Sockets) :
                                        r.Sockets[i].Type = TrafficTypeIngress })
    /\ r.EgressCount = Cardinality({ i \in 1..Len(r.Sockets) :
                                        r.Sockets[i].Type = TrafficTypeEgress })
    /\ r.TotalCount = r.IngressCount + r.EgressCount
    /\ updateCounts(r) = r

\* C6: whenever no file is being walked (after each analysed file and each Analyze call,
\* with or without records) total_count = ingress_count + egress_count, the counts are the
\* numbers of records of each kind, and recomputing them changes nothing; the same holds
\* of what every Analyze call returned.
C6_CountsAgree ==
    /\ pc \in {"idle", "walk", "parse"} => CountsAgree(results)
    /\ \A k \in 1..Len(returned) : ~returned[k].err => CountsAgree(returned[k].seen)

C6_Witness ==
    /\ pc = "idle"
    /\ Len(returned) = MaxRuns
    /\ results.IngressCount >= 1
    /\ results.EgressCount >= 2
    /\ \E k \in 1..Len(returned) : ~returned[k].err /\ returned[k].seen.TotalCount = 0

\* C7: the resolver applied to a record that is already resolved, by the matcher from a
\* literal or by an earlier resolver call, returns the record unchanged.
C7_ResolvedIsFixpoint ==
    (socket # Nil /\ call # NoCall /\ Deref(socket).IsResolved)
    => ResolveValues(Deref(socket), call, file) = Deref(socket)

C7_Witness ==
    /\ Finalized
    /\ Deref(socket).IsResolved
    /\ extractStringLiteral(AddressArgument(call)) # ""
    /\ resolverArgument(Deref(socket), call) # Nil
    /\ Deref(resolverArgument(Deref(socket), call)).t = "Ident"

\* C8: the matcher yields a record exactly when the call has a qualified name, the name
\* is a catalog key, and the call supplies the argument at the descriptor's index.
C8_MatchIffCatalogued ==
    JustMatched => (socket # Nil <=> (QualifiedName(call) # "" /\ SuppliesAddress(call)))

C8_Witness ==
    /\ JustMatched
    /\ socket = Nil
    /\ QualifiedName(call) \in CatalogNames
    /\ Len(call.args) = AddressArgumentIndex(QualifiedName(call))
    /\ Len(call.args) > 0

\* C9, as the specification states it: for an HTTP client pattern with a literal URL that carries a scheme, the
\* protocol is the scheme's, the host is the segment up to ':', and the port is the
\* explicit numeric port when the segment has one, otherwise the scheme default.
C9_SchemeURL ==
    (MatchedLiteralURL /\ UrlScheme(LiteralText(AddressArgument(call))) # "")
    => LET u   == LiteralText(AddressArgument(call))
           seg == UrlSegment(u)
           r   == Deref(socket)
       IN  /\ r.Protocol = UrlScheme(u)
           /\ r.DestinationHost = Ptr(SegmentHost(seg))
           /\ r.DestinationPort = IF HasNumericPort(seg)
                                  THEN Ptr(Atoi(SegmentPortText(seg)).v)
                                  ELSE Ptr(SchemeDefaultPort(u))

\* C9, as the code has it: the protocol is the scheme's; an empty segment leaves host and port unset;
\* otherwise the host is the segment up to the first ':', and the port is the number after
\* that ':' when the text up to the next ':' is numeric, unset when the segment has a ':'
\* followed by other text, and the scheme default when the segment has no ':'.
C9_SchemeURLAmended ==
    (MatchedLiteralURL /\ UrlScheme(LiteralText(AddressArgument(call))) # "")
    => LET u   == LiteralText(AddressArgument(call))
           seg == UrlSegment(u)
           r   == Deref(socket)
       IN  /\ r.Protocol = UrlScheme(u)
           /\ r.DestinationHost = IF seg = "" THEN Nil ELSE Ptr(SegmentHost(seg))
           /\ r.DestinationPort =
                IF seg = "" THEN Nil
                ELSE IF Index(seg, ":") = 0 THEN Ptr(SchemeDefaultPort(u))
                ELSE IF HasNumericPort(seg) THEN Ptr(Atoi(SegmentPortText(seg)).v)
                ELSE Nil

C9_Witness ==
    /\ MatchedLiteralURL
    /\ QualifiedName(call) = "http.Get"
    /\ UrlScheme(LiteralText(AddressArgument(call))) = "https"
    /\ HasNumericPort(UrlSegment(LiteralText(AddressArgument(call))))
    /\ Deref(socket).Protocol = ProtocolHTTPS
    /\ Deref(socket).DestinationPort = Ptr(80)

\* the literal URL has no scheme and no ':' in its host segment
PlainHostURL ==
    /\ MatchedLiteralURL
    /\ UrlScheme(LiteralText(AddressArgument(call))) = ""
    /\ Index(UrlSegment(LiteralText(AddressArgument(call))), ":") = 0

\* C10, as the specification states it: a URL without scheme and without ':' in the host segment gives the
\* whole segment as destination host and leaves the destination port unset.
C10_NoSchemeNoPort ==
    PlainHostURL
    => LET seg == UrlSegment(LiteralText(AddressArgument(call)))
       IN  /\ seg # "" => Deref(socket).DestinationHost = Ptr(seg)
           /\ Deref(socket).DestinationPort = Nil

\* C10, as the code has it: such a URL with a non-empty segment gives the whole segment as host and
\* port 80; with an empty segment it leaves host and port unset.
C10_NoSchemePort80 ==
    PlainHostURL
    => LET seg == UrlSegment(LiteralText(AddressArgument(call)))
           r   == Deref(socket)
       IN  IF seg = ""
           THEN r.DestinationHost = Nil /\ r.DestinationPort = Nil
           ELSE r.DestinationHost = Ptr(seg) /\ r.DestinationPort = Ptr(80)

C10_Witness ==
    /\ PlainHostURL
    /\ UrlSegment(LiteralText(AddressArgument(call))) = "h"
    /\ Deref(socket).DestinationPort = Ptr(80)

\* a text of decimal digits, and the forms ":N" and "host:N" of an address literal, host
\* being a non-empty text without ':'
AllDigits(t) == Len(t) > 0 /\ \A i \in 1..Len(t) : IsDigit(SubSeq(t, i, i))

IsBarePort(text) == HasPrefix(text, ":") /\ AllDigits(SubSeq(text, 2, Len(text)))

IsHostPort(text) ==
    /\ Index(text, ":") > 1
    /\ AllDigits(SubSeq(text, Index(text, ":") + 1, Len(text)))

AddressHost(text) == SubSeq(text, 1, Index(text, ":") - 1)

AddressPort(text) == DecimalValue(SubSeq(text, Index(text, ":") + 1, Len(text)))

\* the visitor holds the record of call, as the matcher made it or as the resolver left it,
\* and the address argument of call is a string literal
RecordOfLiteral ==
    /\ pc \in {"resolve", "append"}
    /\ IsStringLiteral(AddressArgument(call))

\* C11: on every ingress pattern, port-only or not, the literal ":N" gives listen_port N
\* and listen_interface "0.0.0.0", and the literal "host:N" gives listen_interface host
\* and listen_port N.
C11_IngressLiteral ==
    (RecordOfLiteral /\ QualifiedName(call) \in DOMAIN ingressPatterns)
    => LET text == LiteralText(AddressArgument(call))
           r    == Deref(socket)
       IN  /\ IsBarePort(text) =>
                r.ListenPort = Ptr(AddressPort(text)) /\ r.ListenInterface = "0.0.0.0"
           /\ IsHostPort(text) =>
                r.ListenPort = Ptr(AddressPort(text)) /\ r.ListenInterface = AddressHost(text)

C11_Witness ==
    /\ pc = "append"
    /\ QualifiedName(call) = "net.Listen"
    /\ AddressArgument(call) = StringLit(":8080")
    /\ Deref(socket).ListenPort = Ptr(8080)
    /\ Deref(socket).ListenInterface = "0.0.0.0"

EgressAddressNames == {"net.Dial", "net.DialTimeout", "net.DialTCP", "net.DialUDP"}

\* C12: on net.Dial, net.DialTimeout, net.DialTCP and net.DialUDP the literal "host:N"
\* gives destination_host host and destination_port N, and the protocol stays the
\* descriptor's.
C12_EgressLiteral ==
    (/\ RecordOfLiteral
     /\ QualifiedName(call) \in EgressAddressNames
     /\ IsHostPort(LiteralText(AddressArgument(call))))
    => LET text == LiteralText(AddressArgument(call))
           r    == Deref(socket)
       IN  /\ r.DestinationHost = Ptr(AddressHost(text))
           /\ r.DestinationPort = Ptr(AddressPort(text))
           /\ r.Protocol = CatalogProtocol(QualifiedName(call))

C12_Witness ==
    /\ pc = "append"
    /\ QualifiedName(call) = "net.DialUDP"
    /\ AddressArgument(call) = StringLit("database.internal:5432")
    /\ Deref(socket).DestinationHost = Ptr("database.internal")
    /\ Deref(socket).DestinationPort = Ptr(5432)
    /\ Deref(socket).Protocol = ProtocolUDP

\* the entries of a directory that are analysed: named *.go and not under vendor/
IsAnalysed(entry) == HasSuffix(entry.path, ".go") /\ ~Contains(entry.path, "vendor/")

\* the entry cannot be read and parsed as a Go file
Unparsable(entry) == entry.isDir \/ ~entry.parses

FirstFailure(paths) ==
    IF \E i \in 1..Len(paths) : IsAnalysed(paths[i]) /\ Unparsable(paths[i])
    THEN CHOOSE i \in 1..Len(paths) :
            /\ IsAnalysed(paths[i]) /\ Unparsable(paths[i])
            /\ \A j \in 1..(i - 1) : ~(IsAnalysed(paths[j]) /\ Unparsable(paths[j]))
    ELSE 0

\* the target does not exist, or is or holds a file that cannot be parsed
TargetFails(target) ==
    CASE target.kind = "missing" -> TRUE
      [] target.kind = "file"    -> Unparsable(target.file)
      [] target.kind = "dir"     -> FirstFailure(target.paths) # 0

\* the paths of a failing directory that come after its first unparsable file
PathsAfterFailure(target) ==
    { target.paths[i].path : i \in (FirstFailure(target.paths) + 1)..Len(target.paths) }

\* C13: an Analyze call returns an error exactly when its target is missing or is or holds
\* a file that cannot be parsed, and then it returns no result; a directory run stops at its
\* first unparsable file, so no record of a later file of that directory is made.
C13_ErrorNoResult ==
    /\ \A k \in 1..Len(returned) :
            /\ returned[k].err <=> TargetFails(asked[k])
            /\ returned[k].err <=> returned[k].results = Nil
    /\ \A k \in 1..Len(asked) :
            (/\ asked[k].kind = "dir"
             /\ TargetFails(asked[k])
             /\ \A j \in 1..Len(asked) : asked[j] = asked[k])
            => \A i \in 1..Len(results.Sockets) :
                    results.Sockets[i].SourceFile \notin PathsAfterFailure(asked[k])

C13_Witness ==
    /\ pc = "idle"
    /\ Len(returned) = 2
    /\ asked[1] = BadDir /\ asked[2] = MissingTarget
    /\ returned[1].err /\ returned[2].err
    /\ Len(results.Sockets) = 1

\* where a record was found: its file and line
Site(r) == <<r.SourceFile, r.SourceLine>>

Sites(sockets) == [i \in 1..Len(sockets) |-> Site(sockets[i])]

Matches(c) == MatchSocketPattern(c) # Nil

\* the call sites of a file that match the catalog, in the order ast.Walk visits them
RECURSIVE SitesOfCalls(_, _)
SitesOfCalls(path, calls) ==
    IF Len(calls) = 0 THEN <<>>
    ELSE (IF Matches(Head(calls)) THEN << <<path, Head(calls).line>> >> ELSE <<>>)
         \o SitesOfCalls(path, Tail(calls))

SitesOfFile(f) == SitesOfCalls(f.path, CallExprsInAll(f.calls))

\* the same over the paths of a directory in traversal order, up to its first unparsable file
RECURSIVE SitesOfPaths(_)
SitesOfPaths(paths) ==
    IF Len(paths) = 0 THEN <<>>
    ELSE IF ~IsAnalysed(Head(paths)) THEN SitesOfPaths(Tail(paths))
    ELSE IF Unparsable(Head(paths)) THEN <<>>
    ELSE SitesOfFile(Head(paths)) \o SitesOfPaths(Tail(paths))

SitesOfTarget(target) ==
    CASE target.kind = "missing" -> <<>>
      [] target.kind = "file" ->
            IF Unparsable(target.file) THEN <<>> ELSE SitesOfFile(target.file)
      [] target.kind = "dir" -> SitesOfPaths(target.paths)

\* the sites of the targets of a sequence of Analyze calls, call after call
RECURSIVE SitesOfCallsTo(_)
SitesOfCallsTo(targets) ==
    IF Len(targets) = 0 THEN <<>>
    ELSE SitesOfTarget(Head(targets)) \o SitesOfCallsTo(Tail(targets))

IsPrefix(a, b) == Len(a) <= Len(b) /\ SubSeq(b, 1, Len(a)) = a

\* C14: the records are in discovery order (files in traversal order, and within a file
\* the matching calls in visiting order), and every step either leaves the sequence of
\* records alone or appends one record at its end, the record of the call being visited.
C14_DiscoveryOrder ==
    /\ [](/\ IsPrefix(Sites(results.Sockets), SitesOfCallsTo(asked))
          /\ pc = "idle" => Sites(results.Sockets) = SitesOfCallsTo(asked))
    /\ [][\/ results'.Sockets = results.Sockets
          \/ /\ pc = "append"
             /\ results'.Sockets = Append(results.Sockets, Deref(socket))
             /\ Site(Deref(socket)) = <<file.path, call.line>>]_vars

C14_Witness ==
    /\ pc = "idle"
    /\ asked = <<FileTarget(ServerGo), AppDir>>
    /\ Len(returned) = 2
    /\ Sites(results.Sockets) = << <<"app/server.go", 4>>, <<"app/client.go", 4>>,
                                   <<"app/client.go", 6>>, <<"app/server.go", 4>> >>

\* C15: the direction and pattern id of a record are the ones the matcher gave it from the
\* catalog: the resolver, whatever strategy it uses and whether or not it resolves, leaves
\* them as they are, and so does every later step for the records already appended.
C15_DirectionAndPatternFixed ==
    /\ [](pc \in {"resolve", "append"} =>
            /\ Deref(socket).Type = CatalogDirection(QualifiedName(call))
            /\ Deref(socket).PatternMatch = QualifiedName(call))
    /\ [][/\ pc = "resolve" =>
                /\ Deref(socket').Type = Deref(socket).Type
                /\ Deref(socket').PatternMatch = Deref(socket).PatternMatch
          /\ \A i \in 1..Len(results.Sockets) :
                /\ i <= Len(results'.Sockets)
                /\ results'.Sockets[i].Type = results.Sockets[i].Type
                /\ results'.Sockets[i].PatternMatch = results.Sockets[i].PatternMatch]_vars

C15_Witness ==
    /\ pc = "append"
    /\ Deref(socket).Type = TrafficTypeIngress
    /\ Deref(socket).PatternMatch = "net.Listen"
    /\ extractStringLiteral(AddressArgument(call)) = ""
    /\ Deref(socket).IsResolved
    /\ Deref(socket).DestinationHost = Ptr("localhost")

\* the one AnalysisResults a returned pointer points to, as it is now
Pointee(ptr) == results

\* C17: every successful Analyze call on one Analyzer returns exactly the records found
\* under its own target, none of an earlier call, and the result a call returned is not
\* changed by what happens later.
C17_ResultPerCall ==
    \A k \in 1..Len(returned) :
        ~returned[k].err =>
            /\ Sites(returned[k].seen.Sockets) = SitesOfTarget(asked[k])
            /\ Pointee(returned[k].results) = returned[k].seen

\* the path lies under a directory named vendor
UnderVendor(path) == Contains("/" \o path, "/vendor/")

\* C18: a directory run takes records only from files named *.go outside vendor/; the
\* other files and the vendored Go files of the directory, parsable or not, give no
\* record and make the call fail in no case.
C18_OnlyGoOutsideVendor ==
    /\ \A i \in 1..Len(results.Sockets) :
            /\ HasSuffix(results.Sockets[i].SourceFile, ".go")
            /\ ~UnderVendor(results.Sockets[i].SourceFile)
    /\ \A k \in 1..Len(returned) :
            (/\ asked[k].kind = "dir"
             /\ \A j \in 1..Len(asked[k].paths) :
                    LET entry == asked[k].paths[j]
                    IN  Unparsable(entry) =>
                            ~HasSuffix(entry.path, ".go") \/ UnderVendor(entry.path))
            => ~returned[k].err

C18_Witness ==
    /\ pc = "idle"
    /\ asked = <<AppDir>>
    /\ Len(returned) = 1
    /\ ~returned[1].err
    /\ \E j \in 1..Len(AppDir.paths) : AppDir.paths[j] = VendorBadGo
    /\ \E j \in 1..Len(AppDir.paths) : AppDir.paths[j] = OtherTxt
    /\ Sites(results.Sockets) = << <<"app/client.go", 4>>, <<"app/client.go", 6>>,
                                   <<"app/server.go", 4>> >>

\* the stored counts are the numbers of records in the sequence
CountsMatchRecords(r) ==
    /\ r.TotalCount = Len(r.Sockets)
    /\ r.IngressCount = Cardinality({ i \in 1..Len(r.Sockets) :
                                        r.Sockets[i].Type = TrafficTypeIngress })
    /\ r.EgressCount = Cardinality({ i \in 1..Len(r.Sockets) :
                                        r.Sockets[i].Type = TrafficTypeEgress })

\* C16: the counts of the Analysis Result the caller holds equal the numbers of its
\* records also after the caller has removed records from the sequence.
C16_CountsAfterRemoval ==
    (pc = "idle" /\ \E k \in 1..Len(returned) : ~returned[k].err)
    => CountsMatchRecords(Pointee(returned[Len(returned)].results))

SupportedFormats == {"json", "yaml", "csv"}

\* C19: an Export call never changes the Analysis Result; with a format that is not json,
\* yaml or csv in any letter case it returns an error that contains "unsupported format"
\* and writes nothing, and with one of those it returns no error.
C19_ExportUnsupported ==
    [][writer' # writer =>
        /\ results' = results
        /\ IF ToLower(writer'.format) \in SupportedFormats
           THEN writer'.err = NoError
           ELSE /\ Contains(writer'.err, "unsupported format")
                /\ writer'.written = writer.written]_vars

C19_Witness ==
    /\ writer.calls = 2
    /\ writer.format = "xml"
    /\ writer.err = "unsupported format: xml"
    /\ Len(writer.written) = 1
    /\ Len(results.Sockets) > 0

\* how often a site occurs in a sequence of sites
Occurrences(site, sites) == Cardinality({ i \in 1..Len(sites) : sites[i] = site })

\* C20: when goroutines analyse files concurrently on one Analyzer, then once all of them
\* are done every matching call site of the files has exactly one record for each time
\* its file was analysed, none lost, and the counts are the numbers of records.
C20_NoRecordLost ==
    (\A g \in Goroutines : gor[g].pc = "done")
    => /\ Len(results.Sockets) = Len(SitesOfCallsTo(asked))
       /\ \A i \in 1..Len(SitesOfCallsTo(asked)) :
            Occurrences(SitesOfCallsTo(asked)[i], Sites(results.Sockets))
                = Occurrences(SitesOfCallsTo(asked)[i], SitesOfCallsTo(asked))
       /\ CountsMatchRecords(results)

\* the call with the string literal of text s written as its address argument
WithLiteral(c, s) ==
    [c EXCEPT !.args[AddressArgumentIndex(QualifiedName(c)) + 1] = StringLit(s)]

\* the address argument of call is a simple name bound at top level to a string literal
AddressIsBoundName ==
    /\ SuppliesAddress(call)
    /\ AddressArgument(call).t = "Ident"
    /\ resolveIdentifier(AddressArgument(call), file) # ""

\* C21: on an ingress pattern, a top-level string constant of the form ":N" or "host:N"
\* referenced as the address argument gives the listen_port and listen_interface that the
\* same text gives when it is written as a literal in that place.
C21_IngressConstantLikeLiteral ==
    (/\ Finalized
     /\ QualifiedName(call) \in DOMAIN ingressPatterns
     /\ AddressIsBoundName
     /\ LET v == resolveIdentifier(AddressArgument(call), file)
        IN  IsBarePort(v) \/ IsHostPort(v))
    => LET v   == resolveIdentifier(AddressArgument(call), file)
           lit == FinalRecord(WithLiteral(call, v), file)
       IN  /\ Deref(socket).ListenPort = lit.ListenPort
           /\ Deref(socket).ListenInterface = lit.ListenInterface

\* the parts of an address text around its last ':'
BeforeLastColon(text) == SubSeq(text, 1, LastIndex(text, ":") - 1)

AfterLastColon(text) == SubSeq(text, LastIndex(text, ":") + 1, Len(text))

\* C22: on an ingress pattern, a literal address with a ':' that is not of the form ":N"
\* is split at its last ':' only: the text before it is listen_interface ("0.0.0.0" when
\* empty) and the text after it, when it is decimal digits, is listen_port, also when the
\* interface part holds a ':' itself.
C22_SplitOnLastColon ==
    (/\ RecordOfLiteral
     /\ QualifiedName(call) \in DOMAIN ingressPatterns
     /\ Contains(LiteralText(AddressArgument(call)), ":")
     /\ ~IsBarePort(LiteralText(AddressArgument(call))))
    => LET text == LiteralText(AddressArgument(call))
           r    == Deref(socket)
       IN  /\ r.ListenInterface =
                IF BeforeLastColon(text) = "" THEN "0.0.0.0" ELSE BeforeLastColon(text)
           /\ AllDigits(AfterLastColon(text)) =>
                r.ListenPort = Ptr(DecimalValue(AfterLastColon(text)))

\* a port field is unset or holds a non-negative integer
PortNonNegative(ptr) == ptr = Nil \/ Deref(ptr) >= 0

\* C23: listen_port and destination_port, when the matcher or the resolver populated
\* them, are non-negative: the record in the visitor's hands and every record of the
\* result has no negative port.
C23_PortsNonNegative ==
    /\ socket # Nil =>
            /\ PortNonNegative(Deref(socket).ListenPort)
            /\ PortNonNegative(Deref(socket).DestinationPort)
    /\ \A i \in 1..Len(results.Sockets) :
            /\ PortNonNegative(results.Sockets[i].ListenPort)
            /\ PortNonNegative(results.Sockets[i].DestinationPort)

\* C24: on net.Dial, net.DialTimeout, net.DialTCP and net.DialUDP a non-empty literal
\* address without scheme and without ':' gives destination_host the whole text and no
\* destination_port.
C24_EgressHostOnly ==
    (/\ RecordOfLiteral
     /\ QualifiedName(call) \in EgressAddressNames
     /\ LiteralText(AddressArgument(call)) # ""
     /\ ~Contains(LiteralText(AddressArgument(call)), ":"))
    => /\ Deref(socket).DestinationHost = Ptr(LiteralText(AddressArgument(call)))
       /\ Deref(socket).DestinationPort = Nil

\* the address argument of call is a binary add
AddressIsAdd ==
    /\ SuppliesAddress(call)
    /\ AddressArgument(call).t = "BinaryExpr"
    /\ AddressArgument(call).op = "+"

\* the left operand of e is a simple name bound at top level to a string literal
LeftIsBoundName(e) == e.x.t = "Ident" /\ resolveIdentifier(e.x, file) # ""

\* the call with y as the right operand of its binary address argument
WithRightOperand(c, y) ==
    [c EXCEPT !.args[AddressArgumentIndex(QualifiedName(c)) + 1].y = y]

SameStructuredFields(r, s) ==
    /\ r.Protocol = s.Protocol
    /\ r.ListenPort = s.ListenPort
    /\ r.ListenInterface = s.ListenInterface
    /\ r.DestinationHost = s.DestinationHost
    /\ r.DestinationPort = s.DestinationPort

\* C25: when the address argument is a binary add whose left operand is a name bound at
\* top level to a string literal, the record is resolved, its raw value is the literal
\* followed by " + ...", its structured fields are those the literal alone gives in that
\* place, and another right operand gives the same record; when the left operand is no
\* such name the record stays as the matcher made it, unresolved and without fields.
C25_ConcatenationPrefix ==
    (Finalized /\ AddressIsAdd)
    => LET e == AddressArgument(call)
           r == Deref(socket)
       IN  IF LeftIsBoundName(e)
           THEN LET v == resolveIdentifier(e.x, file)
                IN  /\ r.IsResolved
                    /\ r.RawValue = v \o " + ..."
                    /\ SameStructuredFields(r, FinalRecord(WithLiteral(call, v), file))
                    /\ FinalRecord(WithRightOperand(call, OtherExpr), file)
                            = FinalRecord(call, file)
           ELSE /\ ~r.IsResolved
                /\ r.RawValue = ""
                /\ NoFields(r)
                /\ r.Protocol = CatalogProtocol(QualifiedName(call))

\* the hosts the heuristics stand in for a value they cannot know
PlaceholderHosts == {"localhost", "external-service", "parsed-url-host", "dynamic-url"}

\* the name a heuristic classifies: the identifier, or the selector chain joined by dots
ClassifiedName(arg) == IF arg.t = "Ident" THEN arg.name ELSE extractSelectorName(arg)

\* the resolver has just resolved the record of call by a heuristic: the matcher left it
\* unresolved, and the argument the resolver examined is a name without a top-level
\* string binding that matches an idiom, or a call whose callee matches one
ResolvedByHeuristic ==
    /\ Finalized
    /\ ~Deref(MatchSocketPattern(call)).IsResolved
    /\ resolverArgument(Deref(socket), call) # Nil
    /\ LET arg == Deref(resolverArgument(Deref(socket), call))
       IN  \/ /\ arg.t = "Ident"
              /\ resolveIdentifier(arg, file) = ""
              /\ analyzeVariablePattern(arg.name).resolved
           \/ /\ arg.t = "SelectorExpr"
              /\ analyzeVariablePattern(extractSelectorName(arg)).resolved
           \/ /\ arg.t = "CallExpr"
              /\ tryResolveCallExpr(Deref(socket), arg, file).ok

\* C26: a record resolved by the name heuristic or by the call-result heuristic is
\* resolved, has a placeholder as destination host ("localhost" for a test-server idiom
\* such as server.URL), and has neither listen_port nor destination_port.
C26_HeuristicSetsNoPort ==
    ResolvedByHeuristic
    => LET r   == Deref(socket)
           arg == Deref(resolverArgument(r, call))
       IN  /\ r.IsResolved
           /\ r.DestinationHost # Nil
           /\ Deref(r.DestinationHost) \in PlaceholderHosts
           /\ (arg.t # "CallExpr" /\ Contains(ClassifiedName(arg), "server.URL"))
                => r.DestinationHost = Ptr("localhost")
           /\ r.ListenPort = Nil
           /\ r.DestinationPort = Nil

C26_Witness ==
    /\ ResolvedByHeuristic
    /\ QualifiedName(call) = "http.Post"
    /\ call.args[1] = SelectorExpr(Ident("server"), "URL")
    /\ Deref(socket).DestinationHost = Ptr("localhost")
    /\ Deref(socket).DestinationPort = Nil

\* the resolver was handed, for the unresolved record of call, a simple name that has a
\* top-level binding to a string literal and that the name heuristic would classify too
BoundNameMatchingIdiom ==
    /\ Finalized
    /\ ~Deref(MatchSocketPattern(call)).IsResolved
    /\ resolverArgument(Deref(socket), call) # Nil
    /\ LET arg == Deref(resolverArgument(Deref(socket), call))
       IN  /\ arg.t = "Ident"
           /\ identifierBindings(arg, file) # {}
           /\ analyzeVariablePattern(arg.name).resolved

\* the literal of the first top-level binding of the name the resolver was handed
BoundLiteral == resolveIdentifier(Deref(resolverArgument(Deref(socket), call)), file)

\* the record comes from the constant: its raw value is the constant's literal, not the
\* name, and its destination host is no placeholder of the name heuristic
ResolvedFromConstant ==
    LET r     == Deref(socket)
        guess == analyzeVariablePattern(Deref(resolverArgument(r, call)).name)
    IN  /\ r.IsResolved
        /\ r.RawValue = BoundLiteral
        /\ r.DestinationHost = Ptr(guess.host) => HasPrefix(BoundLiteral, guess.host)

\* C27, as the specification states it: constant lookup comes before the name heuristic
\* and the first success wins, so a simple name with a top-level string-literal binding
\* whose name also matches an idiom gives a record resolved from the constant.
C27_ConstantBeforeHeuristic ==
    BoundNameMatchingIdiom => ResolvedFromConstant

\* C27, as the code has it: the same for a name bound to a non-empty string literal; a
\* name bound to the empty string counts as not found and is classified by its name.
C27_NonEmptyConstantBeforeHeuristic ==
    /\ (BoundNameMatchingIdiom /\ BoundLiteral # "") => ResolvedFromConstant
    /\ (BoundNameMatchingIdiom /\ BoundLiteral = "")
            => Deref(socket).RawValue = Deref(resolverArgument(Deref(socket), call)).name

C27_Witness ==
    /\ BoundNameMatchingIdiom
    /\ QualifiedName(call) = "net.Dial"
    /\ call.args[2] = Ident("apiURL")
    /\ BoundLiteral = "database.internal:5432"
    /\ Deref(socket).RawValue = "database.internal:5432"
    /\ Deref(socket).DestinationHost = Ptr("database.internal")

\* the call with every argument but the address argument replaced by an opaque expression
OnlyAddressArgument(c) ==
    [c EXCEPT !.args = [i \in 1..Len(c.args) |->
                            IF i = AddressArgumentIndex(QualifiedName(c)) + 1
                            THEN c.args[i]
                            ELSE OtherExpr]]

\* C28: for every catalog pattern the argument the resolver examines is the argument at
\* the index the matcher used as address or URL argument (0 for http.ListenAndServe,
\* http.ListenAndServeTLS and the HTTP client calls, 1 for net.Listen*, net.Dial and
\* net.DialTimeout, 2 for net.DialTCP and net.DialUDP), and the record takes nothing from
\* any other argument of the call.
C28_ResolverExaminesAddressArgument ==
    pc \in {"resolve", "append"}
    => /\ AddressArgumentIndex(QualifiedName(call)) =
            CASE QualifiedName(call) \in HTTPClientNames
                    \cup {"http.ListenAndServe", "http.ListenAndServeTLS"} -> 0
              [] QualifiedName(call) \in {"net.DialTCP", "net.DialUDP"} -> 2
              [] OTHER -> 1
       /\ resolverArgument(Deref(socket), call) = Ptr(AddressArgument(call))
       /\ FinalRecord(OnlyAddressArgument(call), file) = FinalRecord(call, file)

\* C29: ResolveValues changes the protocol of a record only by promoting the http of an
\* HTTP client pattern to https; the record of a tcp, udp or unix pattern and every
\* ingress record has the protocol after ResolveValues that it had before.
C29_ProtocolFrame ==
    [][pc = "resolve" =>
        /\ Deref(socket').Protocol # Deref(socket).Protocol =>
                /\ QualifiedName(call) \in HTTPClientNames
                /\ Deref(socket).Protocol = ProtocolHTTP
                /\ Deref(socket').Protocol = ProtocolHTTPS
        /\ (\/ CatalogProtocol(QualifiedName(call)) \in {ProtocolTCP, ProtocolUDP, ProtocolUnix}
            \/ Deref(socket).Type = TrafficTypeIngress) =>
                Deref(socket').Protocol = Deref(socket).Protocol]_vars

\* C30: a failed Analyze leaves the accumulated state of the Analyzer as it was: as long
\* as every call so far has failed the Analyzer holds no record and zero counts, and the
\* first successful call after failed ones returns the records of its own target only,
\* with counts that cover just these.
C30_FailedAnalyzeKeepsNothing ==
    /\ (pc = "idle" /\ \A k \in 1..Len(returned) : returned[k].err) => results = NewResults
    /\ \A k \in 1..Len(returned) :
            (~returned[k].err /\ \A j \in 1..(k - 1) : returned[j].err)
            => /\ Sites(returned[k].seen.Sockets) = SitesOfTarget(asked[k])
               /\ returned[k].seen.TotalCount = Len(SitesOfTarget(asked[k]))

====
